---- MODULE Spec2Model ----
(***************************************************************************)
(* A model of djafs (dendra-fuse-djafs): the hot-cache write pipeline      *)
(* (incoming -> staging -> work -> lookup log), the lookup-log queries of  *)
(* the virtual tree (/live and /snapshots/<stamp>), the shutdown path and  *)
(* the work-directory packer.                                              *)
(*                                                                         *)
(* Sources: src/unnamed/part_001 (package djafs: FS, HotCache, Dir, File), *)
(* src/util/hasher.go (LookupTable, hash paths), src/util/repack.go and    *)
(* src/util/metadata.go (CopyToWorkDir, GCWorkDirs and its workers),       *)
(* src/util/inode.go, src/internal/cmd/doc.go (runMount).                  *)
(***************************************************************************)
EXTENDS Integers, Sequences, FiniteSets, TLC

(***************************************************************************)
(* Bounds of the model.                                                    *)
(***************************************************************************)
\* wall-clock instants are 0..MaxTime
MaxTime == 2
\* GC cycles (ticks handled by backgroundGC) per run
MaxCycles == 2
\* calls of HotCache.WriteFile per run
MaxWrites == 2

(***************************************************************************)
(* Values.                                                                 *)
(***************************************************************************)
\* File contents: byte sequences.
Bytes == {<<1>>, <<2, 2>>}

\* Virtual paths below /live, as component sequences (a/x and b/x).
Paths == {<<"a", "x">>, <<"b", "x">>}

Times == 0..MaxTime

\* hc.IncomingDir and hc.StagingDir below the storage root
IncomingDir == <<"hot_cache", "incoming">>
StagingDir == <<"hot_cache", "staging">>

\* a finite map extended or overwritten at key k
Put(f, k, v) == (k :> v) @@ f

\* a finite map without key k
Drop(f, k) == [x \in (DOMAIN f) \ {k} |-> f[x]]

\* the proper prefixes of a byte sequence: what an interrupted io.Copy leaves
Prefixes(d) == {SubSeq(d, 1, n) : n \in 0..(Len(d) - 1)}

(***************************************************************************)
(* util: hashing and hash paths (src/util/hasher.go).                      *)
(***************************************************************************)
\* GetHash: the SHA-256 digest of the bytes, as an injective symbolic digest
GetHash(data) == <<"sha256", data>>

\* colorhash.HashString: a fixed non-cryptographic string hash; the two
\* digests of the model fall into the same bucket
ColorHash(hash) == IF hash[2] = <<1>> THEN 1742 ELSE 2742

BucketModulus == 1000

\* HashPathFromHashWithSubbucket: "bucket-subbucket-hash"
HashPathFromHashWithSubbucket(hash, subbucket) ==
    <<ColorHash(hash) % BucketModulus, subbucket, hash>>

\* HashPathFromHash: subbucket 0
HashPathFromHash(hash) == HashPathFromHashWithSubbucket(hash, 0)

\* GetFileHash of a path whose file is absent fails; else the digest of its bytes
GetFileHashOfName(dir, path) == GetHash(path)

GetFileHash(dir, path) == GetHash(dir[path].data)

(***************************************************************************)
(* util: LookupTable (src/util/hasher.go:425-505).                         *)
(***************************************************************************)
EmptyTable == [entries |-> <<>>, sorted |-> FALSE]

\* LookupTable.Add has a value receiver: it appends to, and clears the
\* sorted flag of, its own copy of the table; the caller's table keeps its
\* length and its flag.
AddAppending(e, le) == [entries |-> Append(e.entries, le), sorted |-> FALSE]

\* a mutable update in place: the entries of that name are overwritten
AddInPlace(e, le) ==
    [entries |-> [i \in 1..Len(e.entries) |->
                    IF e.entries[i].name = le.name THEN le ELSE e.entries[i]],
     sorted |-> FALSE]

Add(e, le) ==
    LET receiver == AddAppending(e, le)
    IN  e

\* a serialization that writes the entries and drops the flag
MarshalEntriesOnly(e) == [jentries |-> e.entries, jsorted |-> FALSE]

\* LookupTable.MarshalJSON: {"entries": [...], "sorted": bool}
MarshalJSON(e) == [jentries |-> e.entries, jsorted |-> e.sorted]

\* json Decode into a LookupTable: the entries and the flag of the document
UnmarshalJSON(j) == [entries |-> j.jentries, sorted |-> j.jsorted]


\* LookupTable.GetTotalFileCount: the distinct names
GetTotalFileCount(l) ==
    Cardinality({l.entries[i].name : i \in DOMAIN l.entries})

\* LookupTable.GetTargetFileCount: the distinct targets, the empty one included
GetTargetFileCount(l) ==
    Cardinality({l.entries[i].target : i \in DOMAIN l.entries})

\* LookupTable.GenerateMetadata(""): the two counts that validation reads
GenerateMetadata(l) ==
    [TargetFileCount |-> GetTargetFileCount(l),
     TotalFileCount |-> GetTotalFileCount(l)]


(***************************************************************************)
(* State.                                                                  *)
(***************************************************************************)
VARIABLES
    now,            \* the wall clock
    incoming,       \* hot_cache/incoming: relative path -> [data, mtime]
    staging,        \* hot_cache/staging: relative path -> [data, mtime]
    work,           \* the work directory: hash path -> bytes of the file
    logFile,        \* <storage>/lookups.djfl: {} when absent, else {json}
    archives,       \* blobs inside the .djfz files below the storage root
    cache,          \* fs.Archives[<storage>/lookups.djfl]: {} or {table}
    tasks,          \* the processFile goroutines started so far
    gcPc,           \* backgroundGC: "select", "walk" (in processFiles), "stopped"
    walk,           \* the files filepath.Walk has still to visit
    cycle,          \* number of processFiles calls begun
    tickPending,    \* a tick waits in gcTicker.C (capacity 1)
    tickerStopped,  \* gcTicker.Stop() was called
    stopPc,         \* HotCache.Stop: "idle", "sending", "returned"
    exited,         \* the process has exited
    highestInode,   \* util.highestInode
    nWrites,        \* WriteFile calls so far
    lastWrite,      \* history: relative path -> the bytes last written
    picked,         \* history: relative path -> cycle that staged the last write
    query,          \* the last name resolved: <<path, snapshot time>>
    result,         \* what that resolution found: {} or {entry}
    version,        \* which GCWorkDirs runs: "errChan" or "waitGroup"
    gcLock,         \* util.gcLock is held
    packPc,         \* GCWorkDirs: "idle", "send", "wait", "collect", "returned"
    workDirs,       \* the work directories GCWorkDirs has still to send
    failing,        \* the work directories whose PackWorkDir fails
    jobChan,        \* the buffer of jobChan
    closed,         \* jobChan is closed
    workers,        \* the worker goroutines: [pc, job]
    resultChan,     \* the buffer of errChan / resultChan: TRUE is an error
    errs,           \* results GCWorkDirs has collected
    packed          \* the work directories packed and removed

hcVars == <<now, incoming, staging, work, logFile, archives, cache, tasks,
            gcPc, walk, cycle, tickPending, tickerStopped, stopPc, exited,
            highestInode, nWrites, lastWrite, picked>>

resolveVars == <<query, result>>

packVars == <<version, gcLock, packPc, workDirs, failing, jobChan, closed,
              workers, resultChan, errs, packed>>

VARIABLES
    fdata,          \* File.data of the open file
    fmodified,      \* File.modified
    isNew,          \* File.isNew
    mu,             \* File.mu: [writer |-> handler holding Lock or 0, readers]
    handlers,       \* the FUSE requests on the file being served: [op, pc, req]
    nOps            \* requests on the file so far

fileVars == <<fdata, fmodified, isNew, mu, handlers, nOps>>

VARIABLES
    callers,        \* goroutines calling GetNewInode / SetInode: [pc, ...]
    mints,          \* history: the GetNewInode calls that returned, in order
    sets            \* history: the SetInode calls that returned

inodeVars == <<callers, mints, sets>>

VARIABLES
    archiveFile,    \* the file at archivePath: {} when absent, else {zip}
    backupFile,     \* the file at archivePath + ".bak": {} or {zip}
    lockFile,       \* whether archivePath + ".lock" exists
    tmpFiles,       \* the repair-*.djfz file of each repair: {} or {zip}
    freeBytes,      \* the bytes available on the device of archiveDir
    repairs         \* the validate runs on the archive: [pc, mode, ...]

repairVars == <<archiveFile, backupFile, lockFile, tmpFiles, freeBytes, repairs>>

VARIABLES
    workBucket,     \* the files of one work directory: name -> bytes
    zipFile,        \* the .djfz of that work directory: {} or {name -> bytes}
    packRun         \* PackWorkDir on it: [pc, zipBefore, bucketBefore, packs]

repackVars == <<workBucket, zipFile, packRun>>

VARIABLES
    dirsOnDisk,     \* the directories that exist, as absolute paths from "/"
    manifests       \* the lookups.djfl files: directory -> JSON document

walkVars == <<dirsOnDisk, manifests>>

VARIABLES
    fview,          \* the tree below which the File node was looked up
    node            \* what the Dir.Lookup of a name returned, if it was the last request

viewVars == <<fview, node>>

VARIABLES
    held,           \* the LookupTable value a caller holds
    heldBefore,     \* that table before the caller's last call
    call,           \* the caller's last call on the table
    document,       \* the bytes MarshalJSON last returned: {} or {json}
    marshalled      \* the table those bytes were made from: {} or {table}

tableVars == <<held, heldBefore, call, document, marshalled>>

VARIABLES
    metadataFile    \* <storage>/metadata.djfm: {} when absent, else {metadata}

metaVars == <<metadataFile>>

VARIABLES
    tree,           \* the input tree of a conversion: [dirs, files], as paths
    planTarget,     \* the maximum number of files per archive asked for
    planned,        \* the directory DetermineZipBoundaries was last called on
    boundaries,     \* the boundaries it returned
    isOver          \* what CountSubfile said of that directory

planVars == <<tree, planTarget, planned, boundaries, isOver>>

VARIABLES
    dirents         \* the entries that the last Dir.ReadDirAll returned

listVars == <<dirents>>

moreVars == <<fileVars, inodeVars, repairVars, repackVars, walkVars, viewVars, tableVars, metaVars, planVars, listVars>>

vars == <<hcVars, resolveVars, packVars, moreVars>>

\* the tombstone target: the empty string
Tombstone == <<>>

\* filepath.Walk visits the files of a directory in lexical order
PathOrder == <<<<"a", "x">>, <<"b", "x">>>>

WalkList(dir) == SelectSeq(PathOrder, LAMBDA p : p \in DOMAIN dir)

\* filepath.Rel(hc.IncomingDir, path)
BaseName(base, path) == <<path[Len(path)]>>

Rel(base, path) == SubSeq(path, Len(base) + 1, Len(path))

\* <storage>/work (util.WorkDir)
WorkDirPath == <<"work">>

\* filepath.Join(dir, name)
Join(dir, name) == Append(dir, name)

\* filepath.Base(path): the last element
Base(path) == path[Len(path)]

(***************************************************************************)
(* FS: lookup-table queries (src/unnamed/part_001).                        *)
(***************************************************************************)
RECURSIVE searchFrom(_, _, _)
\* the loop of searchLookupTable from index i on
searchFrom(entries, relativePath, i) ==
    IF i > Len(entries) THEN {}
    ELSE IF entries[i].name = relativePath /\ entries[i].target # Tombstone
         THEN {entries[i]}
         ELSE searchFrom(entries, relativePath, i + 1)

\* FS.searchLookupTable on a loaded table: {} is "file not found"
searchLookupTable(table, relativePath) ==
    searchFrom(table.entries, relativePath, 1)

\* a snapshot time is an instant, or NoTime for nil ("latest")
NoTime == -1

RECURSIVE latestFrom(_, _, _, _, _)
\* the loop of searchLookupTableAtTime from index i on, latest so far given
latestFrom(entries, relativePath, snapshotTime, i, latestEntry) ==
    IF i > Len(entries) THEN latestEntry
    ELSE LET entry == entries[i]
             within == snapshotTime = NoTime \/ entry.modified <= snapshotTime
             newer == latestEntry = {} \/
                        \E l \in latestEntry : entry.modified > l.modified
         IN  IF entry.name = relativePath /\ within /\ newer
             THEN latestFrom(entries, relativePath, snapshotTime, i + 1, {entry})
             ELSE latestFrom(entries, relativePath, snapshotTime, i + 1, latestEntry)

\* the search without the snapshot time check
searchLatest(table, relativePath, snapshotTime) ==
    LET latestEntry == latestFrom(table.entries, relativePath, NoTime, 1, {})
    IN  {l \in latestEntry : l.target # Tombstone}

\* FS.searchLookupTableAtTime on a loaded table: {} is "file not found"
searchLookupTableAtTime(table, relativePath, snapshotTime) ==
    LET latestEntry == latestFrom(table.entries, relativePath, snapshotTime, 1, {})
    IN  {l \in latestEntry : l.target # Tombstone}

\* FS.loadLookupTable: the cached table if there is one, else the decoded file
loadLookupTable ==
    IF cache # {} THEN cache
    ELSE {UnmarshalJSON(j) : j \in logFile}

\* FS.findFileEntry with the one lookup log at the storage root
findFileEntry(path) ==
    UNION {searchLookupTable(t, path) : t \in loadLookupTable}

\* FS.findFileEntryAtTime with the one lookup log at the storage root
findFileEntryAtTime(path, snapshotTime) ==
    UNION {searchLookupTableAtTime(t, path, snapshotTime) : t \in loadLookupTable}

\* FS.findArchiveForTarget and FS.loadFileContent: the bytes of the entry's
\* target in a .djfz archive, {} when no archive holds it
loadFileContent(entry) ==
    IF entry.target \in DOMAIN archives THEN {archives[entry.target]} ELSE {}

\* Dir.Lookup below /live followed by File.ReadAll
ReadLive(path) == UNION {loadFileContent(e) : e \in findFileEntry(path)}

\* Dir.Lookup below /snapshots/<stamp> followed by File.ReadAll
ReadAt(path, snapshotTime) ==
    UNION {loadFileContent(e) : e \in findFileEntryAtTime(path, snapshotTime)}


(***************************************************************************)
(* The storage root a mount starts from: empty, or holding a lookup log    *)
(* (the .djfl format) and the archive blobs its entries name.              *)
(***************************************************************************)
\* the target identifier of the bytes
TargetOf(data) == HashPathFromHash(GetHash(data))

OldEntry(path, data, t, ino) ==
    [size |-> Len(data), inode |-> ino, modified |-> t, name |-> path,
     target |-> TargetOf(data)]

Deletion(path, t, ino) ==
    [size |-> 0, inode |-> ino, modified |-> t, name |-> path,
     target |-> Tombstone]

\* lookup logs found at mount
InitLogs ==
    { <<>>,
      <<OldEntry(<<"a", "x">>, <<1>>, 0, 1)>>,
      <<OldEntry(<<"a", "x">>, <<1>>, 0, 1), Deletion(<<"a", "x">>, 1, 2)>>,
      <<OldEntry(<<"a", "x">>, <<1>>, 0, 1), OldEntry(<<"a", "x">>, <<2, 2>>, 1, 2)>>,
      <<OldEntry(<<"a", "x">>, <<2, 2>>, 0, 1), OldEntry(<<"b", "x">>, <<1>>, 1, 2)>> }

\* the archive blobs of a log: one per target named
BlobsOf(entries) ==
    [t \in {entries[i].target : i \in 1..Len(entries)} \ {Tombstone} |-> t[3][2]]

\* no resolution yet
IdleResolve ==
    /\ query = <<>>
    /\ result = {}

\* no file is open
IdleFile ==
    /\ fdata = <<>>
    /\ fmodified = 0
    /\ isNew = FALSE
    /\ mu = [writer |-> 0, readers |-> 0]
    /\ handlers = <<>>
    /\ nOps = 0

\* no goroutine of the inode harness is running
IdleInode ==
    /\ callers = <<>>
    /\ mints = <<>>
    /\ sets = {}

\* no validate run has been started, and there is no archive to validate
IdleRepair ==
    /\ archiveFile = {}
    /\ backupFile = {}
    /\ lockFile = FALSE
    /\ tmpFiles = <<>>
    /\ freeBytes = 0
    /\ repairs = <<>>

\* PackWorkDir has not been called, and there is no work directory
IdleRepack ==
    /\ workBucket = <<>>
    /\ zipFile = {}
    /\ packRun = [pc |-> "idle", zipBefore |-> {}, bucketBefore |-> <<>>,
                  packs |-> 0]

\* the directory tree around the storage root is not looked at
IdleWalk ==
    /\ dirsOnDisk = {}
    /\ manifests = <<>>

\* no File node was looked up below /snapshots
IdleView == fview = "live" /\ node = "none"

\* no caller holds a table
IdleTable ==
    /\ held = EmptyTable
    /\ heldBefore = EmptyTable
    /\ call = <<>>
    /\ document = {}
    /\ marshalled = {}

\* no conversion is planned
IdlePlan ==
    /\ tree = [dirs |-> {<<>>}, files |-> {}]
    /\ planTarget = 0
    /\ planned = {}
    /\ boundaries = <<>>
    /\ isOver = FALSE

\* no directory has been read
IdleList == dirents = <<>>

IdleMore == IdleFile /\ IdleInode /\ IdleRepair /\ IdleRepack /\ IdleWalk /\ IdleView /\ IdleTable /\ IdlePlan /\ IdleList

\* GCWorkDirs is not running
IdlePack ==
    /\ version = "waitGroup"
    /\ gcLock = FALSE
    /\ packPc = "idle"
    /\ workDirs = <<>>
    /\ failing = {}
    /\ jobChan = <<>>
    /\ closed = FALSE
    /\ workers = <<>>
    /\ resultChan = <<>>
    /\ errs = <<>>
    /\ packed = {}

\* a storage root with lookup log l and the archives of its blobs
StorageRoot(l, isSorted) ==
    /\ logFile = IF l = <<>> THEN {}
                 ELSE {MarshalJSON([entries |-> l, sorted |-> isSorted])}
    /\ archives = BlobsOf(l)
    /\ metadataFile = IF l = <<>> THEN {}
                      ELSE {GenerateMetadata([entries |-> l, sorted |-> isSorted])}

\* NewFS and NewHotCache: nothing cached, nothing in the hot cache, the
\* ticker and backgroundGC started; the log entries lie in the past
Mounted(at) ==
    /\ now = at
    /\ incoming = <<>>
    /\ staging = <<>>
    /\ work = <<>>
    /\ cache = {}
    /\ tasks = <<>>
    /\ gcPc = "select"
    /\ walk = <<>>
    /\ cycle = 0
    /\ tickPending = FALSE
    /\ tickerStopped = FALSE
    /\ stopPc = "idle"
    /\ exited = FALSE
    /\ highestInode = 0
    /\ nWrites = 0
    /\ lastWrite = <<>>
    /\ picked = <<>>

Init ==
    /\ IdleResolve
    /\ IdlePack
    /\ IdleMore
    /\ Mounted(1)
    /\ \E l \in InitLogs : StorageRoot(l, TRUE)

(***************************************************************************)
(* HotCache (src/unnamed/part_001:612-785).                                *)
(***************************************************************************)
\* the clock advances
Tick ==
    /\ now < MaxTime
    /\ now' = now + 1
    /\ UNCHANGED <<resolveVars, packVars>>
    /\ UNCHANGED moreVars
    /\ UNCHANGED <<incoming, staging, work, logFile, archives, cache, tasks,
                   gcPc, walk, cycle, tickPending, tickerStopped, stopPc,
                   exited, highestInode, nWrites, lastWrite, picked>>

\* HotCache.WriteFile(path, data), under hc.mu
WriteFile(path, data) ==
    /\ ~exited
    /\ gcPc # "walk"
    /\ nWrites < MaxWrites
    /\ incoming' = Put(incoming, path, [data |-> data, mtime |-> now])
    /\ nWrites' = nWrites + 1
    /\ lastWrite' = Put(lastWrite, path, data)
    /\ picked' = Put(picked, path, 0)
    /\ UNCHANGED <<resolveVars, packVars>>
    /\ UNCHANGED moreVars
    /\ UNCHANGED <<now, staging, work, logFile, archives, cache, tasks, gcPc,
                   walk, cycle, tickPending, tickerStopped, stopPc, exited,
                   highestInode>>

\* gcTicker delivers a tick (dropped when one is already pending)
TickerFire ==
    /\ ~exited
    /\ ~tickerStopped
    /\ ~tickPending
    /\ tickPending' = TRUE
    /\ UNCHANGED <<resolveVars, packVars>>
    /\ UNCHANGED moreVars
    /\ UNCHANGED <<now, incoming, staging, work, logFile, archives, cache,
                   tasks, gcPc, walk, cycle, tickerStopped, stopPc, exited,
                   highestInode, nWrites, lastWrite, picked>>

\* backgroundGC receives the tick; processFiles locks hc.mu and starts the walk
GCBegin ==
    /\ ~exited
    /\ gcPc = "select"
    /\ tickPending
    /\ cycle < MaxCycles
    /\ tickPending' = FALSE
    /\ gcPc' = "walk"
    /\ walk' = WalkList(incoming)
    /\ cycle' = cycle + 1
    /\ UNCHANGED <<resolveVars, packVars>>
    /\ UNCHANGED moreVars
    /\ UNCHANGED <<now, incoming, staging, work, logFile, archives, cache,
                   tasks, tickerStopped, stopPc, exited, highestInode,
                   nWrites, lastWrite, picked>>

\* a goroutine "go hc.processFile(stagingPath, relPath)" of the given cycle
NewTask(relPath, c) ==
    [pc |-> "hash", cycle |-> c, relPath |-> relPath, hash |-> <<>>,
     workPath |-> <<>>, entry |-> {}, table |-> EmptyTable]

\* the walk callback of processFiles on one file: rename into staging and
\* start the processing goroutine
GCStep ==
    /\ ~exited
    /\ gcPc = "walk"
    /\ walk # <<>>
    /\ LET path == IncomingDir \o Head(walk)
           relPath == Rel(IncomingDir, path)
       IN  /\ staging' = Put(staging, relPath, incoming[Head(walk)])
           /\ incoming' = Drop(incoming, Head(walk))
           /\ tasks' = Append(tasks, NewTask(relPath, cycle))
           /\ picked' = Put(picked, relPath, cycle)
    /\ walk' = Tail(walk)
    /\ UNCHANGED <<resolveVars, packVars>>
    /\ UNCHANGED moreVars
    /\ UNCHANGED <<now, work, logFile, archives, cache, gcPc, cycle,
                   tickPending, tickerStopped, stopPc, exited, highestInode,
                   nWrites, lastWrite>>

\* processFiles returns: hc.mu is unlocked, backgroundGC selects again
GCEnd ==
    /\ ~exited
    /\ gcPc = "walk"
    /\ walk = <<>>
    /\ gcPc' = "select"
    /\ UNCHANGED <<resolveVars, packVars>>
    /\ UNCHANGED moreVars
    /\ UNCHANGED <<now, incoming, staging, work, logFile, archives, cache,
                   tasks, walk, cycle, tickPending, tickerStopped, stopPc,
                   exited, highestInode, nWrites, lastWrite, picked>>


(***************************************************************************)
(* util.CopyToWorkDir (src/util/repack.go:22-69), under util.gcLock.       *)
(* The result: the work directory afterwards, the returned path and        *)
(* whether an error is returned.  copied is what io.Copy wrote: all the    *)
(* bytes of the source, or a proper prefix when it fails.                  *)
(***************************************************************************)
CopyToWorkDir(dir, path, workDir, hash, copied) ==
    LET hashPath == HashPathFromHash(hash)
        workspacePath == Join(WorkDirPath, hashPath)
    IN  IF path \notin DOMAIN dir
        THEN [work |-> workDir, path |-> <<>>, err |-> TRUE]
        ELSE IF hashPath \in DOMAIN workDir
        THEN [work |-> workDir, path |-> workspacePath, err |-> FALSE]
        ELSE [work |-> Put(workDir, hashPath, copied), path |-> workspacePath,
              err |-> copied # dir[path].data]

(***************************************************************************)
(* HotCache.processFile (src/unnamed/part_001:698-741), one goroutine per  *)
(* staged file, step by step.                                              *)
(***************************************************************************)
Running == {"hash", "copy", "stat", "load", "save", "remove"}

\* util.GetFileHash(stagingPath)
TaskHash(i) ==
    /\ ~exited
    /\ tasks[i].pc = "hash"
    /\ tasks' = [tasks EXCEPT ![i] =
         IF tasks[i].relPath \in DOMAIN staging
         THEN [@ EXCEPT !.pc = "copy",
                        !.hash = GetFileHash(staging, tasks[i].relPath)]
         ELSE [@ EXCEPT !.pc = "failed"]]
    /\ UNCHANGED <<resolveVars, packVars>>
    /\ UNCHANGED moreVars
    /\ UNCHANGED <<now, incoming, staging, work, logFile, archives, cache,
                   gcPc, walk, cycle, tickPending, tickerStopped, stopPc,
                   exited, highestInode, nWrites, lastWrite, picked>>

\* util.CopyToWorkDir(stagingPath, workDir, hash)
TaskCopy(i) ==
    /\ ~exited
    /\ tasks[i].pc = "copy"
    /\ \E copied \in IF tasks[i].relPath \in DOMAIN staging
                     THEN {staging[tasks[i].relPath].data}
                            \cup Prefixes(staging[tasks[i].relPath].data)
                     ELSE {<<>>} :
         LET r == CopyToWorkDir(staging, tasks[i].relPath, work,
                                tasks[i].hash, copied)
         IN  /\ work' = r.work
             /\ tasks' = [tasks EXCEPT ![i] =
                  IF r.err THEN [@ EXCEPT !.pc = "failed"]
                  ELSE [@ EXCEPT !.pc = "stat", !.workPath = r.path]]
    /\ UNCHANGED <<resolveVars, packVars>>
    /\ UNCHANGED moreVars
    /\ UNCHANGED <<now, incoming, staging, logFile, archives, cache, gcPc,
                   walk, cycle, tickPending, tickerStopped, stopPc, exited,
                   highestInode, nWrites, lastWrite, picked>>

\* os.Stat(stagingPath) and the LookupEntry, with a new inode
TaskStat(i) ==
    /\ ~exited
    /\ tasks[i].pc = "stat"
    /\ IF tasks[i].relPath \in DOMAIN staging
       THEN /\ highestInode' = highestInode + 1
            /\ tasks' = [tasks EXCEPT ![i] = [@ EXCEPT
                 !.pc = "load",
                 !.entry = {[size |-> Len(staging[tasks[i].relPath].data),
                             inode |-> highestInode + 1,
                             modified |-> staging[tasks[i].relPath].mtime,
                             name |-> tasks[i].relPath,
                             target |-> Base(tasks[i].workPath)]}]]
       ELSE /\ highestInode' = highestInode
            /\ tasks' = [tasks EXCEPT ![i] = [@ EXCEPT !.pc = "failed"]]
    /\ UNCHANGED <<resolveVars, packVars>>
    /\ UNCHANGED moreVars
    /\ UNCHANGED <<now, incoming, staging, work, logFile, archives, cache,
                   gcPc, walk, cycle, tickPending, tickerStopped, stopPc,
                   exited, nWrites, lastWrite, picked>>

\* updateLookupTable, first half: decode lookups.djfl if it exists
TaskLoad(i) ==
    /\ ~exited
    /\ tasks[i].pc = "load"
    /\ tasks' = [tasks EXCEPT ![i] = [@ EXCEPT
         !.pc = "save",
         !.table = IF logFile = {} THEN EmptyTable
                   ELSE UnmarshalJSON(CHOOSE j \in logFile : TRUE)]]
    /\ UNCHANGED <<resolveVars, packVars>>
    /\ UNCHANGED moreVars
    /\ UNCHANGED <<now, incoming, staging, work, logFile, archives, cache,
                   gcPc, walk, cycle, tickPending, tickerStopped, stopPc,
                   exited, highestInode, nWrites, lastWrite, picked>>

\* updateLookupTable, second half: lookupTable.Add(entry), then
\* util.WriteJSONFile(lookupPath, lookupTable)
TaskSave(i) ==
    /\ ~exited
    /\ tasks[i].pc = "save"
    /\ logFile' = {MarshalJSON(Add(tasks[i].table, e)) : e \in tasks[i].entry}
    /\ tasks' = [tasks EXCEPT ![i] = [@ EXCEPT !.pc = "remove"]]
    /\ UNCHANGED <<resolveVars, packVars>>
    /\ UNCHANGED moreVars
    /\ UNCHANGED <<now, incoming, staging, work, archives, cache, gcPc, walk,
                   cycle, tickPending, tickerStopped, stopPc, exited,
                   highestInode, nWrites, lastWrite, picked>>

\* os.Remove(stagingPath) and cleanupEmptyDirs
TaskRemove(i) ==
    /\ ~exited
    /\ tasks[i].pc = "remove"
    /\ staging' = Drop(staging, tasks[i].relPath)
    /\ tasks' = [tasks EXCEPT ![i] = [@ EXCEPT !.pc = "done"]]
    /\ UNCHANGED <<resolveVars, packVars>>
    /\ UNCHANGED moreVars
    /\ UNCHANGED <<now, incoming, work, logFile, archives, cache, gcPc, walk,
                   cycle, tickPending, tickerStopped, stopPc, exited,
                   highestInode, nWrites, lastWrite, picked>>

(***************************************************************************)
(* The virtual tree and shutdown.                                          *)
(***************************************************************************)
\* a Dir.Lookup reaches FS.loadLookupTable, which caches the decoded table
Lookup ==
    /\ ~exited
    /\ cache = {}
    /\ logFile # {}
    /\ cache' = loadLookupTable
    /\ UNCHANGED <<resolveVars, packVars>>
    /\ UNCHANGED moreVars
    /\ UNCHANGED <<now, incoming, staging, work, logFile, archives, tasks,
                   gcPc, walk, cycle, tickPending, tickerStopped, stopPc,
                   exited, highestInode, nWrites, lastWrite, picked>>

\* HotCache.Stop: gcTicker.Stop(), then the send on the unbuffered hc.stopGC
Stop ==
    /\ ~exited
    /\ stopPc = "idle"
    /\ tickerStopped' = TRUE
    /\ stopPc' = "sending"
    /\ UNCHANGED <<resolveVars, packVars>>
    /\ UNCHANGED moreVars
    /\ UNCHANGED <<now, incoming, staging, work, logFile, archives, cache,
                   tasks, gcPc, walk, cycle, tickPending, exited,
                   highestInode, nWrites, lastWrite, picked>>

\* backgroundGC receives from hc.stopGC and returns; Stop returns
GCRecvStop ==
    /\ ~exited
    /\ gcPc = "select"
    /\ stopPc = "sending"
    /\ gcPc' = "stopped"
    /\ stopPc' = "returned"
    /\ UNCHANGED <<resolveVars, packVars>>
    /\ UNCHANGED moreVars
    /\ UNCHANGED <<now, incoming, staging, work, logFile, archives, cache,
                   tasks, walk, cycle, tickPending, tickerStopped, exited,
                   highestInode, nWrites, lastWrite, picked>>

\* runMount's signal handler after filesystem.Stop(): os.Exit(0)
Exit ==
    /\ ~exited
    /\ stopPc = "returned"
    /\ exited' = TRUE
    /\ UNCHANGED <<resolveVars, packVars>>
    /\ UNCHANGED moreVars
    /\ UNCHANGED <<now, incoming, staging, work, logFile, archives, cache,
                   tasks, gcPc, walk, cycle, tickPending, tickerStopped,
                   stopPc, highestInode, nWrites, lastWrite, picked>>

Next ==
    \/ Tick
    \/ \E path \in Paths, data \in Bytes : WriteFile(path, data)
    \/ TickerFire
    \/ GCBegin
    \/ GCStep
    \/ GCEnd
    \/ \E i \in DOMAIN tasks : TaskHash(i)
    \/ \E i \in DOMAIN tasks : TaskCopy(i)
    \/ \E i \in DOMAIN tasks : TaskStat(i)
    \/ \E i \in DOMAIN tasks : TaskLoad(i)
    \/ \E i \in DOMAIN tasks : TaskSave(i)
    \/ \E i \in DOMAIN tasks : TaskRemove(i)
    \/ Lookup
    \/ Stop
    \/ GCRecvStop
    \/ Exit

Spec == Init /\ [][Next]_vars

(***************************************************************************)
(* Properties of the hot-cache pipeline (specification Spec).              *)
(***************************************************************************)
\* the task that processes the last write of path p, if it was staged
TaskOfLastWrite(p) ==
    {i \in DOMAIN tasks : tasks[i].relPath = p /\ tasks[i].cycle = picked[p]}

\* C1: bytes written under /live and processed by a completed GC cycle are
\* what a read of the same path under /live returns.  The cycle counts as
\* completed when processFiles has returned and the task it started for the
\* write has run to its end.
C1_RoundTrip ==
    \A p \in DOMAIN lastWrite :
        (gcPc = "select" /\ \E i \in TaskOfLastWrite(p) : tasks[i].pc = "done")
            => ReadLive(p) = {lastWrite[p]}

C5_Dedup ==
    \A p, q \in DOMAIN lastWrite :
        (p # q /\ lastWrite[p] = lastWrite[q]) =>
            \A i \in TaskOfLastWrite(p), j \in TaskOfLastWrite(q) :
                (tasks[i].entry # {} /\ tasks[j].entry # {}) =>
                    \E t \in DOMAIN work :
                        /\ \A e \in tasks[i].entry \cup tasks[j].entry :
                              e.target = t
                        /\ {k \in DOMAIN work : k[3] = GetHash(lastWrite[p])}
                              = {t}

\* two paths with identical bytes have both been given their lookup entry
C5_Witness ==
    \E p, q \in DOMAIN lastWrite :
        /\ p # q
        /\ lastWrite[p] = lastWrite[q]
        /\ \E i \in TaskOfLastWrite(p), j \in TaskOfLastWrite(q) :
              tasks[i].entry # {} /\ tasks[j].entry # {}

\* C6: within one GC cycle no two running tasks work on the same path.
C6_OneTaskPerPath ==
    \A i, j \in DOMAIN tasks :
        (i # j /\ tasks[i].cycle = tasks[j].cycle
               /\ tasks[i].pc \in Running /\ tasks[j].pc \in Running)
            => tasks[i].relPath # tasks[j].relPath

\* two tasks of the same cycle are running
C6_Witness ==
    \E i, j \in DOMAIN tasks :
        /\ i # j
        /\ tasks[i].cycle = tasks[j].cycle
        /\ tasks[i].pc \in Running
        /\ tasks[j].pc \in Running

\* C7: a file left in staging by a failed task is taken up again by a later
\* GC cycle.  Whenever processFiles has returned, every staged file has a
\* running task or was given a task by the cycle that just ended.
C7_StagedRetried ==
    gcPc = "select" =>
        \A p \in DOMAIN staging :
            \E i \in DOMAIN tasks :
                /\ tasks[i].relPath = p
                /\ (tasks[i].pc \in Running \/ tasks[i].cycle = cycle)

\* C8: processing a path again after an earlier attempt on the same bytes
\* stopped part-way ends as one uninterrupted run would: the entry built
\* for the path names a blob that holds the bytes.
C8_RetryIdempotent ==
    \A i \in DOMAIN tasks :
        (/\ tasks[i].entry # {}
         /\ \E j \in 1..(i - 1) :
               /\ tasks[j].pc = "failed"
               /\ tasks[j].relPath = tasks[i].relPath
               /\ tasks[j].hash = tasks[i].hash)
            => \A e \in tasks[i].entry :
                  /\ e.target \in DOMAIN work
                  /\ work[e.target] = tasks[i].hash[2]

\* C9: when Stop has returned no processing task is still running, and the
\* process does not exit while one is.
C9_Drained ==
    stopPc = "returned" => \A i \in DOMAIN tasks : tasks[i].pc \notin Running

(***************************************************************************)
(* Name resolution over arbitrary lookup logs (specification SpecResolve). *)
(***************************************************************************)
\* entries of a lookup log at the storage root
MaxLogLen == 3

\* what a log entry says: name, modified, content (<<>> for a deletion)
Versions == Paths \X Times \X ({<<>>} \cup Bytes)

\* the log that records the versions vs in this order
LogOf(vs) ==
    [i \in 1..Len(vs) |->
        IF vs[i][3] = <<>> THEN Deletion(vs[i][1], vs[i][2], i)
        ELSE OldEntry(vs[i][1], vs[i][3], vs[i][2], i)]

Logs == UNION {{LogOf(vs) : vs \in [1..n -> Versions]} : n \in 0..MaxLogLen}

InitResolve ==
    /\ IdleResolve
    /\ IdlePack
    /\ IdleMore
    /\ Mounted(MaxTime)
    /\ \E l \in Logs, isSorted \in BOOLEAN : StorageRoot(l, isSorted)

\* A path string of Dir.Lookup: whether it starts with "/", and its
\* components.  Entry names are relative paths (filepath.Rel in
\* HotCache.processFiles): component sequences that never start with "/".
PathString(rooted, parts) == [rooted |-> rooted, parts |-> parts]

\* strings.HasPrefix(name, prefix) for the prefix string dir + "/"
HasPrefix(name, dir) ==
    /\ ~dir.rooted
    /\ Len(name) > Len(dir.parts)
    /\ SubSeq(name, 1, Len(dir.parts)) = dir.parts

\* FS.hasFilesWithPrefix with the one lookup log at the storage root
hasFilesWithPrefix(dir) ==
    \E t \in loadLookupTable : \E i \in 1..Len(t.entries) :
        t.entries[i].target # Tombstone /\ HasPrefix(t.entries[i].name, dir)

\* FS.hasFilesWithPrefixAtTime: latestEntries holds, for every name, the
\* entry the loop of searchLookupTableAtTime keeps
hasFilesWithPrefixAtTime(dir, snapshotTime) ==
    \E t \in loadLookupTable : \E i \in 1..Len(t.entries) :
        \E entry \in latestFrom(t.entries, t.entries[i].name, snapshotTime, 1, {}) :
            entry.target # Tombstone /\ HasPrefix(entry.name, dir)

\* fullPath of Dir.resolveLivePath for the Dir at /live/<parent>:
\* filepath.Join(strings.TrimPrefix(d.path, "/live"), name)
LiveFullPath(parent, name) == PathString(parent # <<>>, parent \o <<name>>)

\* virtualPath of Dir.resolveSnapshotPath for the Dir at
\* /snapshots/<stamp>/<parent>: "/" + parts + "/" + name
SnapshotVirtualPath(parent, name) == PathString(TRUE, parent \o <<name>>)

\* the names a Lookup is asked for, and the directories it is asked in
Names == {"a", "x"}
Parents == {<<>>, <<"a">>}

\* Dir.resolveLivePath: FS.findFileEntry, which loads and caches the table
ResolveLive(path) ==
    /\ query' = <<path, NoTime>>
    /\ result' = findFileEntry(path)
    /\ cache' = loadLookupTable
    /\ node' = "none"
    /\ fview' = fview
    /\ UNCHANGED packVars
    /\ UNCHANGED <<fileVars, inodeVars, repairVars, repackVars, walkVars, tableVars, metaVars, planVars, listVars>>
    /\ UNCHANGED <<now, incoming, staging, work, logFile, archives, tasks,
                   gcPc, walk, cycle, tickPending, tickerStopped, stopPc,
                   exited, highestInode, nWrites, lastWrite, picked>>

\* Dir.resolveSnapshotPath at a snapshot time: FS.findFileEntryAtTime
ResolveAt(path, snapshotTime) ==
    /\ query' = <<path, snapshotTime>>
    /\ result' = findFileEntryAtTime(path, snapshotTime)
    /\ cache' = loadLookupTable
    /\ node' = "none"
    /\ fview' = fview
    /\ UNCHANGED packVars
    /\ UNCHANGED <<fileVars, inodeVars, repairVars, repackVars, walkVars, tableVars, metaVars, planVars, listVars>>
    /\ UNCHANGED <<now, incoming, staging, work, logFile, archives, tasks,
                   gcPc, walk, cycle, tickPending, tickerStopped, stopPc,
                   exited, highestInode, nWrites, lastWrite, picked>>

\* Dir.resolveSnapshotPath below /snapshots/latest: FS.findFileEntryAtTime
\* with a nil snapshot time
ResolveLatest(path) ==
    /\ query' = <<path, NoTime, "latest">>
    /\ result' = findFileEntryAtTime(path, NoTime)
    /\ cache' = loadLookupTable
    /\ node' = "none"
    /\ fview' = fview
    /\ UNCHANGED packVars
    /\ UNCHANGED <<fileVars, inodeVars, repairVars, repackVars, walkVars, tableVars, metaVars, planVars, listVars>>
    /\ UNCHANGED <<now, incoming, staging, work, logFile, archives, tasks,
                   gcPc, walk, cycle, tickPending, tickerStopped, stopPc,
                   exited, highestInode, nWrites, lastWrite, picked>>

\* the node a lookup returns: the file found, else a directory, else ENOENT
NodeOf(found, isDir) ==
    IF found # {} THEN "file" ELSE IF isDir THEN "dir" ELSE "enoent"

\* Dir.resolveLivePath of name in the Dir at /live/<parent>: the kind of
\* node it returns
resolveLivePath(parent, name) ==
    LET fullPath == LiveFullPath(parent, name)
    IN  NodeOf(findFileEntry(fullPath.parts), hasFilesWithPrefix(fullPath))

\* Dir.resolveSnapshotPath of name in the Dir at /snapshots/<stamp>: the
\* kind of node it returns
resolveSnapshotPath(name, snapshotTime) ==
    LET virtualPath == SnapshotVirtualPath(<<>>, name)
    IN  NodeOf(findFileEntryAtTime(virtualPath.parts, snapshotTime),
               hasFilesWithPrefixAtTime(virtualPath, snapshotTime))

\* Dir.Lookup of name in the Dir at /live/<parent>, a node that an earlier
\* Lookup returned: Dir.resolveLivePath
LookupLive(parent, name) ==
    /\ parent # <<>> => hasFilesWithPrefix(PathString(FALSE, parent))
    /\ LET fullPath == LiveFullPath(parent, name)
       IN  /\ query' = <<fullPath.parts, NoTime, "live">>
           /\ result' = findFileEntry(fullPath.parts)
           /\ node' = resolveLivePath(parent, name)
    /\ cache' = loadLookupTable
    /\ fview' = fview
    /\ UNCHANGED packVars
    /\ UNCHANGED <<fileVars, inodeVars, repairVars, repackVars, walkVars, tableVars, metaVars, planVars, listVars>>
    /\ UNCHANGED <<now, incoming, staging, work, logFile, archives, tasks,
                   gcPc, walk, cycle, tickPending, tickerStopped, stopPc,
                   exited, highestInode, nWrites, lastWrite, picked>>

\* Dir.Lookup of name in the Dir at /snapshots/<stamp> (NoTime for latest):
\* Dir.resolveSnapshotPath
LookupAt(name, snapshotTime) ==
    /\ LET virtualPath == SnapshotVirtualPath(<<>>, name)
       IN  /\ query' = <<virtualPath.parts, snapshotTime, "snapshots">>
           /\ result' = findFileEntryAtTime(virtualPath.parts, snapshotTime)
           /\ node' = resolveSnapshotPath(name, snapshotTime)
    /\ cache' = loadLookupTable
    /\ fview' = fview
    /\ UNCHANGED packVars
    /\ UNCHANGED <<fileVars, inodeVars, repairVars, repackVars, walkVars, tableVars, metaVars, planVars, listVars>>
    /\ UNCHANGED <<now, incoming, staging, work, logFile, archives, tasks,
                   gcPc, walk, cycle, tickPending, tickerStopped, stopPc,
                   exited, highestInode, nWrites, lastWrite, picked>>

NextResolve ==
    \/ \E parent \in Parents, name \in Names : LookupLive(parent, name)
    \/ \E name \in Names, snapshotTime \in Times \cup {NoTime} :
          LookupAt(name, snapshotTime)
    \/ \E path \in Paths : ResolveLive(path)
    \/ \E path \in Paths : ResolveLatest(path)
    \/ \E path \in Paths, snapshotTime \in Times : ResolveAt(path, snapshotTime)

SpecResolve == InitResolve /\ [][NextResolve]_vars

\* the entries of the log on disk
LogEntries == UNION {{j.jentries} : j \in logFile}

\* the entries of a log with name p and modified at most t (any, if NoTime)
Candidates(entries, p, t) ==
    {i \in 1..Len(entries) :
        entries[i].name = p /\ (t = NoTime \/ entries[i].modified <= t)}

\* those of the candidates that no candidate is newer than
Newest(entries, p, t) ==
    {i \in Candidates(entries, p, t) :
        \A j \in Candidates(entries, p, t) :
            entries[j].modified <= entries[i].modified}

\* the resolution of name p at t is the newest candidate if that is not a
\* tombstone, and nothing if there is no candidate or it is a tombstone
ResolvesNewest(entries, p, t, found) ==
    /\ found \subseteq {entries[i] : i \in Newest(entries, p, t)}
    /\ \A e \in found : e.target # Tombstone
    /\ found = {} =>
          \/ Candidates(entries, p, t) = {}
          \/ \E i \in Newest(entries, p, t) : entries[i].target = Tombstone

\* C2: resolving a name under /live uses its entry of maximum modified:
\* returned if its target is not empty, not found if it is a tombstone,
\* whatever older entries the name has.
C2_LiveResolve ==
    (query # <<>> /\ query[2] = NoTime) =>
        \A entries \in LogEntries :
            ResolvesNewest(entries, query[1], NoTime, result)

MaxWorkDirs == 4

\* runtime.NumCPU()
NumCPU == 2

\* make(chan string, 1)
JobChanCap == 1

Min(a, b) == IF a <= b THEN a ELSE b

InitPack ==
    /\ IdleResolve
    /\ IdleMore
    /\ Mounted(1)
    /\ StorageRoot(<<>>, FALSE)
    /\ version \in {"errChan", "waitGroup"}
    /\ gcLock = FALSE
    /\ packPc = "idle"
    /\ \E n \in 0..MaxWorkDirs :
          /\ workDirs = [i \in 1..n |-> i]
          /\ failing \in SUBSET (1..n)
    /\ jobChan = <<>>
    /\ closed = FALSE
    /\ workers = <<>>
    /\ resultChan = <<>>
    /\ errs = <<>>
    /\ packed = {}

\* GCWorkDirs up to the start of the workers: gcLock.Lock(), ListWorkDirs,
\* the channels, the goroutines; the WaitGroup version returns at once
\* when there is no work directory
GCWorkDirsBegin ==
    /\ packPc = "idle"
    /\ ~gcLock
    /\ IF version = "waitGroup" /\ workDirs = <<>>
       THEN /\ packPc' = "returned"
            /\ UNCHANGED <<gcLock, workers>>
       ELSE /\ gcLock' = TRUE
            /\ packPc' = "send"
            /\ workers' =
                 [w \in 1..(IF version = "waitGroup"
                            THEN Min(NumCPU, Len(workDirs)) ELSE NumCPU)
                    |-> [pc |-> "recv", job |-> 0]]
    /\ UNCHANGED <<version, workDirs, failing, jobChan, closed, resultChan,
                   errs, packed>>
    /\ UNCHANGED <<hcVars, resolveVars>>
    /\ UNCHANGED moreVars

\* jobChan <- workDir: needs room in the buffer, which has JobChanCap places
\* in the errChan version and len(workDirs) places in the WaitGroup version
SendJob ==
    /\ packPc = "send"
    /\ workDirs # <<>>
    /\ version = "errChan" => Len(jobChan) < JobChanCap
    /\ jobChan' = Append(jobChan, Head(workDirs))
    /\ workDirs' = Tail(workDirs)
    /\ UNCHANGED <<version, gcLock, packPc, failing, closed, workers,
                   resultChan, errs, packed>>
    /\ UNCHANGED <<hcVars, resolveVars>>
    /\ UNCHANGED moreVars

\* close(jobChan) after the last send
CloseJobs ==
    /\ packPc = "send"
    /\ workDirs = <<>>
    /\ closed' = TRUE
    /\ packPc' = IF version = "waitGroup" THEN "wait" ELSE "collect"
    /\ UNCHANGED <<version, gcLock, workDirs, failing, jobChan, workers,
                   resultChan, errs, packed>>
    /\ UNCHANGED <<hcVars, resolveVars>>
    /\ UNCHANGED moreVars

\* a worker takes a job: for workDir := range jobChan
WorkerRecv(w) ==
    /\ workers[w].pc = "recv"
    /\ jobChan # <<>>
    /\ workers' = [workers EXCEPT ![w] = [pc |-> "pack", job |-> Head(jobChan)]]
    /\ jobChan' = Tail(jobChan)
    /\ UNCHANGED <<version, gcLock, packPc, workDirs, failing, closed,
                   resultChan, errs, packed>>
    /\ UNCHANGED <<hcVars, resolveVars>>
    /\ UNCHANGED moreVars

\* PackWorkDir and os.RemoveAll on the job.  worker (errChan version) sends
\* the error and returns; gcWorker sends every result and goes on.  Neither
\* result buffer can be full: NumCPU places for one send per worker,
\* len(workDirs) places for one send per job.
WorkerPack(w) ==
    /\ workers[w].pc = "pack"
    /\ IF workers[w].job \in failing
       THEN /\ resultChan' = Append(resultChan, TRUE)
            /\ workers' = [workers EXCEPT ![w].pc =
                 IF version = "errChan" THEN "exited" ELSE "recv"]
            /\ UNCHANGED packed
       ELSE /\ packed' = packed \cup {workers[w].job}
            /\ resultChan' = IF version = "errChan" THEN resultChan
                             ELSE Append(resultChan, FALSE)
            /\ workers' = [workers EXCEPT ![w].pc = "recv"]
    /\ UNCHANGED <<version, gcLock, packPc, workDirs, failing, jobChan,
                   closed, errs>>
    /\ UNCHANGED <<hcVars, resolveVars>>
    /\ UNCHANGED moreVars

\* the range over the closed and empty jobChan ends: worker sends nil on
\* errChan, gcWorker does wg.Done()
WorkerReturn(w) ==
    /\ workers[w].pc = "recv"
    /\ jobChan = <<>>
    /\ closed
    /\ workers' = [workers EXCEPT ![w].pc = "exited"]
    /\ resultChan' = IF version = "errChan" THEN Append(resultChan, FALSE)
                     ELSE resultChan
    /\ UNCHANGED <<version, gcLock, packPc, workDirs, failing, jobChan,
                   closed, errs, packed>>
    /\ UNCHANGED <<hcVars, resolveVars>>
    /\ UNCHANGED moreVars

\* wg.Wait() returns and resultChan is closed (WaitGroup version)
WaitWorkers ==
    /\ packPc = "wait"
    /\ \A w \in DOMAIN workers : workers[w].pc = "exited"
    /\ packPc' = "collect"
    /\ UNCHANGED <<version, gcLock, workDirs, failing, jobChan, closed,
                   workers, resultChan, errs, packed>>
    /\ UNCHANGED <<hcVars, resolveVars>>
    /\ UNCHANGED moreVars

\* one receive of the collecting loop: NumCPU results from errChan, or the
\* closed resultChan until it is empty
Collect ==
    /\ packPc = "collect"
    /\ resultChan # <<>>
    /\ version = "errChan" => Len(errs) < NumCPU
    /\ errs' = Append(errs, Head(resultChan))
    /\ resultChan' = Tail(resultChan)
    /\ UNCHANGED <<version, gcLock, packPc, workDirs, failing, jobChan,
                   closed, workers, packed>>
    /\ UNCHANGED <<hcVars, resolveVars>>
    /\ UNCHANGED moreVars

\* GCWorkDirs returns; the deferred gcLock.Unlock() runs
GCWorkDirsReturn ==
    /\ packPc = "collect"
    /\ IF version = "errChan" THEN Len(errs) = NumCPU ELSE resultChan = <<>>
    /\ packPc' = "returned"
    /\ gcLock' = FALSE
    /\ UNCHANGED <<version, workDirs, failing, jobChan, closed, workers,
                   resultChan, errs, packed>>
    /\ UNCHANGED <<hcVars, resolveVars>>
    /\ UNCHANGED moreVars

NextPack ==
    \/ GCWorkDirsBegin
    \/ SendJob
    \/ CloseJobs
    \/ \E w \in DOMAIN workers : WorkerRecv(w)
    \/ \E w \in DOMAIN workers : WorkerPack(w)
    \/ \E w \in DOMAIN workers : WorkerReturn(w)
    \/ WaitWorkers
    \/ Collect
    \/ GCWorkDirsReturn

SpecPack == InitPack /\ [][NextPack]_vars

\* C10: every pack cycle terminates and releases the GC lock, also when
\* workers fail: while GCWorkDirs holds the lock, it or one of its workers
\* can take a step.
C10_PackTerminates ==
    gcLock => ENABLED NextPack

(***************************************************************************)
(* The File node and its per-file lock (specification SpecFile):           *)
(* src/unnamed/part_001:279-304 (Dir.Create) and 489-610 (File).           *)
(***************************************************************************)
\* FUSE requests served on the file per run
MaxOps == 3

\* requests served concurrently
NumHandlers == 2

\* the lookup entry of the file when it was resolved, not created
FileEntry == OldEntry(<<"a", "x">>, <<1>>, 0, 1)

\* a request not yet made
NoRequest == [op |-> "none", pc |-> "idle", data |-> <<>>, size |-> {},
              mtime |-> {}, resp |-> {}]

InitFile ==
    /\ IdleResolve
    /\ IdlePack
    /\ IdleMore
    /\ Mounted(1)
    /\ StorageRoot(<<FileEntry>>, TRUE)

\* the hot-cache variables but highestInode and now
hcRest == <<incoming, staging, work, logFile, archives, cache, tasks, gcPc,
            walk, cycle, tickPending, tickerStopped, stopPc, exited, nWrites,
            lastWrite, picked>>

\* Dir.Create: a new File node; the response carries a new inode
Create ==
    /\ handlers = <<>>
    /\ fdata' = <<>>
    /\ fmodified' = now
    /\ isNew' = TRUE
    /\ highestInode' = highestInode + 1
    /\ handlers' = [h \in 1..NumHandlers |-> NoRequest]
    /\ UNCHANGED <<mu, nOps, now, hcRest, resolveVars, packVars>>
    /\ UNCHANGED <<inodeVars, repairVars, repackVars, walkVars, viewVars, tableVars, metaVars, planVars, listVars>>

\* Dir.resolveLivePath: the File node of an entry found in the log
OpenEntry ==
    /\ handlers = <<>>
    /\ FileEntry \in findFileEntry(FileEntry.name)
    /\ fdata' = <<>>
    /\ isNew' = FALSE
    /\ cache' = loadLookupTable
    /\ handlers' = [h \in 1..NumHandlers |-> NoRequest]
    /\ UNCHANGED <<fmodified, mu, nOps, now, highestInode, incoming, staging,
                   work, logFile, archives, tasks, gcPc, walk, cycle,
                   tickPending, tickerStopped, stopPc, exited, nWrites,
                   lastWrite, picked, resolveVars, packVars>>
    /\ UNCHANGED <<inodeVars, repairVars, repackVars, walkVars, viewVars, tableVars, metaVars, planVars, listVars>>

\* Dir.resolveSnapshotPath: the File node of the entry found at a snapshot
\* time (NoTime for /snapshots/latest); the node does not record its tree
OpenSnapshot ==
    /\ handlers = <<>>
    /\ \E snapshotTime \in Times \cup {NoTime} :
         FileEntry \in findFileEntryAtTime(FileEntry.name, snapshotTime)
    /\ fview' = "snapshots"
    /\ node' = node
    /\ UNCHANGED <<tableVars, metaVars, planVars, listVars>>
    /\ fdata' = <<>>
    /\ isNew' = FALSE
    /\ cache' = loadLookupTable
    /\ handlers' = [h \in 1..NumHandlers |-> NoRequest]
    /\ UNCHANGED <<fmodified, mu, nOps, now, highestInode, incoming, staging,
                   work, logFile, archives, tasks, gcPc, walk, cycle,
                   tickPending, tickerStopped, stopPc, exited, nWrites,
                   lastWrite, picked, resolveVars, packVars>>
    /\ UNCHANGED <<inodeVars, repairVars, repackVars, walkVars>>

\* the kernel sends a request: Attr, Write at offset 0, or Setattr
Request(h, op, data, size, mtime) ==
    /\ h \in DOMAIN handlers
    /\ handlers[h].pc = "idle"
    /\ nOps < MaxOps
    /\ nOps' = nOps + 1
    /\ handlers' = [handlers EXCEPT ![h] =
         [op |-> op, pc |-> IF op = "Attr" THEN "rlock" ELSE "lock",
          data |-> data, size |-> size, mtime |-> mtime, resp |-> {}]]
    /\ UNCHANGED <<fdata, fmodified, isNew, mu, hcVars, resolveVars, packVars>>
    /\ UNCHANGED <<inodeVars, repairVars, repackVars, walkVars, viewVars, tableVars, metaVars, planVars, listVars>>

\* f.mu.Lock(): waits while the lock is held by a writer or by readers
Lock(h) ==
    /\ h \in DOMAIN handlers
    /\ handlers[h].pc = "lock"
    /\ mu.writer = 0
    /\ mu.readers = 0
    /\ mu' = [mu EXCEPT !.writer = h]
    /\ handlers' = [handlers EXCEPT ![h].pc = "body"]
    /\ UNCHANGED <<fdata, fmodified, isNew, nOps, hcVars, resolveVars, packVars>>
    /\ UNCHANGED <<inodeVars, repairVars, repackVars, walkVars, viewVars, tableVars, metaVars, planVars, listVars>>

\* req.Data copied over f.data from offset 0, the slice extended if needed
Overlay(old, new) ==
    new \o SubSeq(old, Len(new) + 1, Len(old))

\* f.data cut to size, or extended with zero bytes
Resize(old, size) ==
    IF size < Len(old) THEN SubSeq(old, 1, size)
    ELSE old \o [i \in 1..(size - Len(old)) |-> 0]

\* File.Write under the lock, and the deferred f.mu.Unlock()
WriteBody(h) ==
    /\ h \in DOMAIN handlers
    /\ handlers[h].pc = "body"
    /\ handlers[h].op = "Write"
    /\ fdata' = Overlay(fdata, handlers[h].data)
    /\ fmodified' = now
    /\ isNew' = TRUE
    /\ mu' = [mu EXCEPT !.writer = 0]
    /\ handlers' = [handlers EXCEPT ![h].pc = "idle"]
    /\ UNCHANGED <<nOps, hcVars, resolveVars, packVars>>
    /\ UNCHANGED <<inodeVars, repairVars, repackVars, walkVars, viewVars, tableVars, metaVars, planVars, listVars>>

\* File.Setattr under the lock, up to its call of f.Attr
SetattrBody(h) ==
    /\ h \in DOMAIN handlers
    /\ handlers[h].pc = "body"
    /\ handlers[h].op = "Setattr"
    /\ fdata' = IF handlers[h].size = {} THEN fdata
                ELSE Resize(fdata, CHOOSE n \in handlers[h].size : TRUE)
    /\ isNew' = (isNew \/ \E n \in handlers[h].size : n # Len(fdata))
    /\ fmodified' =
         IF handlers[h].mtime # {} THEN CHOOSE t \in handlers[h].mtime : TRUE
         ELSE IF \E n \in handlers[h].size : n # Len(fdata) THEN now
         ELSE fmodified
    /\ handlers' = [handlers EXCEPT ![h].pc = "rlock"]
    /\ UNCHANGED <<mu, nOps, hcVars, resolveVars, packVars>>
    /\ UNCHANGED <<inodeVars, repairVars, repackVars, walkVars, viewVars, tableVars, metaVars, planVars, listVars>>

\* f.mu.RLock() at the start of File.Attr: waits while a writer holds the
\* lock, whoever that writer is (sync.RWMutex is not reentrant)
RLock(h) ==
    /\ h \in DOMAIN handlers
    /\ handlers[h].pc = "rlock"
    /\ mu.writer = 0
    /\ mu' = [mu EXCEPT !.readers = @ + 1]
    /\ handlers' = [handlers EXCEPT ![h].pc = "attr"]
    /\ UNCHANGED <<fdata, fmodified, isNew, nOps, hcVars, resolveVars, packVars>>
    /\ UNCHANGED <<inodeVars, repairVars, repackVars, walkVars, viewVars, tableVars, metaVars, planVars, listVars>>

\* File.Attr under the read lock, its deferred RUnlock, and the return of
\* the request (for Setattr with its deferred Unlock)
AttrBody(h) ==
    /\ h \in DOMAIN handlers
    /\ handlers[h].pc = "attr"
    /\ highestInode' = IF isNew THEN highestInode + 1 ELSE highestInode
    /\ handlers' = [handlers EXCEPT ![h].pc = "idle", ![h].resp =
         {IF isNew
          THEN [inode |-> highestInode + 1, size |-> Len(fdata),
                mtime |-> fmodified]
          ELSE [inode |-> FileEntry.inode, size |-> FileEntry.size,
                mtime |-> FileEntry.modified]}]
    /\ mu' = [writer |-> IF mu.writer = h THEN 0 ELSE mu.writer,
              readers |-> mu.readers - 1]
    /\ UNCHANGED <<fdata, fmodified, isNew, nOps, now, hcRest, resolveVars,
                   packVars>>
    /\ UNCHANGED <<inodeVars, repairVars, repackVars, walkVars, viewVars, tableVars, metaVars, planVars, listVars>>

NextFile ==
    \/ Create
    \/ OpenEntry
    \/ OpenSnapshot
    \/ \E h \in 1..NumHandlers : Request(h, "Attr", <<>>, {}, {})
    \/ \E h \in 1..NumHandlers, data \in Bytes :
          Request(h, "Write", data, {}, {})
    \/ \E h \in 1..NumHandlers, size \in {{}, {0}, {3}}, mtime \in {{}, {0}} :
          Request(h, "Setattr", <<>>, size, mtime)
    \/ \E h \in 1..NumHandlers : Lock(h)
    \/ \E h \in 1..NumHandlers : WriteBody(h)
    \/ \E h \in 1..NumHandlers : SetattrBody(h)
    \/ \E h \in 1..NumHandlers : RLock(h)
    \/ \E h \in 1..NumHandlers : AttrBody(h)

SpecFile == InitFile /\ [][NextFile]_vars

\* C11: a Setattr request always returns: where it computes the response
\* attributes it does not wait for the per-file lock that it holds itself.
C11_SetattrReturns ==
    \A h \in DOMAIN handlers :
        (handlers[h].op = "Setattr" /\ handlers[h].pc = "rlock")
            => mu.writer # h

(***************************************************************************)
(* The inode counter (specification SpecInode): src/util/inode.go:8-39,    *)
(* called from several goroutines.                                         *)
(***************************************************************************)
\* GetNewInode calls per run
MaxMints == 3

\* SetInode calls per run
MaxSets == 2

\* the greatest value passed to SetInode
MaxSetValue == 3

\* goroutines calling concurrently
NumGoroutines == 2

\* a goroutine between calls
NoCall == [pc |-> "idle", arg |-> 0, current |-> 0, prev |-> 0,
           before |-> {}, setBefore |-> {}]

InitInode ==
    /\ IdleResolve
    /\ IdlePack
    /\ IdleFile
    /\ IdleRepair
    /\ IdleRepack
    /\ IdleWalk
    /\ IdleView
    /\ IdleTable
    /\ IdlePlan
    /\ IdleList
    /\ Mounted(1)
    /\ StorageRoot(<<>>, FALSE)
    /\ callers = [g \in 1..NumGoroutines |-> NoCall]
    /\ mints = <<>>
    /\ sets = {}

\* a counter that is read but not advanced
NoAdd(cur, delta) == cur

\* a store that does not compare
BlindStore(cur, old, new) == new

\* atomic.Uint64.Add(delta): the new value
AtomicAdd(cur, delta) == cur + delta

\* atomic.Uint64.CompareAndSwap(old, new): the value afterwards
CompareAndSwap(cur, old, new) == IF cur = old THEN new ELSE cur

\* a goroutine calls GetNewInode; what has returned before the call is noted
CallGetNewInode(g) ==
    /\ callers[g].pc = "idle"
    /\ Len(mints) + Cardinality({c \in DOMAIN callers : callers[c].pc = "mint"})
          < MaxMints
    /\ callers' = [callers EXCEPT ![g] =
         [NoCall EXCEPT !.pc = "mint",
                        !.before = {mints[i].val : i \in DOMAIN mints},
                        !.setBefore = {r.arg : r \in sets}]]
    /\ UNCHANGED <<mints, sets, hcVars, resolveVars, packVars, fileVars, repairVars, repackVars, walkVars, viewVars, tableVars, metaVars, planVars, listVars>>

\* GetNewInode: return highestInode.Add(1)
GetNewInode(g) ==
    /\ callers[g].pc = "mint"
    /\ highestInode' = AtomicAdd(highestInode, 1)
    /\ mints' = Append(mints, [val |-> highestInode',
                               before |-> callers[g].before,
                               setBefore |-> callers[g].setBefore])
    /\ callers' = [callers EXCEPT ![g] = NoCall]
    /\ UNCHANGED <<sets, now, hcRest, resolveVars, packVars, fileVars, repairVars, repackVars, walkVars, viewVars, tableVars, metaVars, planVars, listVars>>

\* a goroutine calls SetInode(inode)
CallSetInode(g, inode) ==
    /\ callers[g].pc = "idle"
    /\ Cardinality(sets)
         + Cardinality({c \in DOMAIN callers : callers[c].pc \in {"load", "cas"}})
          < MaxSets
    /\ callers' = [callers EXCEPT ![g] =
         [NoCall EXCEPT !.pc = "load", !.arg = inode, !.prev = highestInode]]
    /\ UNCHANGED <<mints, sets, hcVars, resolveVars, packVars, fileVars, repairVars, repackVars, walkVars, viewVars, tableVars, metaVars, planVars, listVars>>

\* SetInode: current := highestInode.Load(); return if inode <= current
SetInodeLoad(g) ==
    /\ callers[g].pc = "load"
    /\ IF callers[g].arg <= highestInode
       THEN /\ callers' = [callers EXCEPT ![g] = NoCall]
            /\ sets' = sets \cup {[arg |-> callers[g].arg,
                                   prev |-> callers[g].prev,
                                   was |-> highestInode,
                                   after |-> highestInode]}
       ELSE /\ callers' = [callers EXCEPT ![g].pc = "cas",
                                          ![g].current = highestInode]
            /\ sets' = sets
    /\ UNCHANGED <<mints, hcVars, resolveVars, packVars, fileVars, repairVars, repackVars, walkVars, viewVars, tableVars, metaVars, planVars, listVars>>

\* SetInode: return if highestInode.CompareAndSwap(current, inode), else
\* go round the loop again
SetInodeCAS(g) ==
    /\ callers[g].pc = "cas"
    /\ highestInode' =
         CompareAndSwap(highestInode, callers[g].current, callers[g].arg)
    /\ IF highestInode = callers[g].current
       THEN /\ callers' = [callers EXCEPT ![g] = NoCall]
            /\ sets' = sets \cup {[arg |-> callers[g].arg,
                                   prev |-> callers[g].prev,
                                   was |-> highestInode,
                                   after |-> highestInode']}
       ELSE /\ callers' = [callers EXCEPT ![g].pc = "load"]
            /\ sets' = sets
    /\ UNCHANGED <<mints, now, hcRest, resolveVars, packVars, fileVars, repairVars, repackVars, walkVars, viewVars, tableVars, metaVars, planVars, listVars>>

NextInode ==
    \/ \E g \in 1..NumGoroutines : CallGetNewInode(g)
    \/ \E g \in 1..NumGoroutines : GetNewInode(g)
    \/ \E g \in 1..NumGoroutines, inode \in 0..MaxSetValue : CallSetInode(g, inode)
    \/ \E g \in 1..NumGoroutines : SetInodeLoad(g)
    \/ \E g \in 1..NumGoroutines : SetInodeCAS(g)

SpecInode == InitInode /\ [][NextInode]_vars

\* C12: any two GetNewInode calls return different values, and a call that
\* starts after another has returned gets a strictly larger value.
C12_MintsIncrease ==
    \A i \in DOMAIN mints :
        /\ \A j \in DOMAIN mints : i # j => mints[i].val # mints[j].val
        /\ \A b \in mints[i].before : b < mints[i].val

\* two calls that ran at the same time have both returned, and so has a
\* call that started after another had returned
C12_Witness ==
    /\ \E i, j \in DOMAIN mints :
          i < j /\ mints[i].val \notin mints[j].before
    /\ \E i \in DOMAIN mints : mints[i].before # {}

\* C13: SetInode(v) never decreases the counter: when it returns the
\* counter is at least v, at least what it was at the call and at least
\* what it was just before; every inode minted afterwards is greater than v.
C13_SetInodeKeepsMax ==
    /\ \A r \in sets :
          r.after >= r.arg /\ r.after >= r.prev /\ r.after >= r.was
    /\ \A i \in DOMAIN mints : \A v \in mints[i].setBefore : v < mints[i].val

\* a SetInode call has raised the counter although the counter moved between
\* its call and its return, and an inode was minted after a SetInode
C13_Witness ==
    /\ \E r \in sets : r.was > r.prev /\ r.after > r.was
    /\ \E i \in DOMAIN mints : mints[i].setBefore # {}

\* C14: after a restart no newly minted inode equals or is lower than an
\* inode already recorded in a lookup log of the mounted root.  The mount
\* of a root with a log is the state after a restart; the inodes minted
\* are those of the entries processFile builds.
C14_InodesAcrossRestart ==
    \A i \in DOMAIN tasks : \A e \in tasks[i].entry :
        \A entries \in LogEntries : \A k \in DOMAIN entries :
            entries[k].inode < e.inode

(***************************************************************************)
(* The archive validator and repairer (src/internal/cmd/validate.go).      *)
(* A zip is modelled by its members: the blobs by name, lookups.djfl,      *)
(* metadata.djfm, and which of the two documents do not parse.             *)
(***************************************************************************)
MaxEntries == 2
MaxFree == 8
NumRepairs == 2

LookupsName == "lookups.djfl"
MetadataName == "metadata.djfm"

\* archiveInfo.Size(): one unit for each member of the zip
Size(zip) ==
    Cardinality(zip.files) + Cardinality(zip.lookups) + Cardinality(zip.metadata)

\* zip.NewWriter on the fresh temporary file
EmptyZip == [files |-> {}, lookups |-> {}, metadata |-> {}, unreadable |-> {}]

\* the logs an archive may hold: MaxEntries versions at most, in time order
RepairLogs ==
    UNION {{LogOf([i \in 1..n |-> <<c[i][1], i - 1, c[i][2]>>]) :
                c \in [1..n -> Paths \X ({<<>>} \cup Bytes)]} :
           n \in 0..MaxEntries}

\* the blob names an archive may hold
BlobNames == {TargetOf(data) : data \in Bytes}

\* the metadata documents found with a table: none, the right one, a stale one
MetadataFor(l) ==
    {{}, {GenerateMetadata(l)},
     {[TargetFileCount |-> GetTargetFileCount(l),
       TotalFileCount |-> GetTotalFileCount(l) + 1]}}

\* the archives with a readable lookups.djfl
ReadableZips ==
    UNION {{[files |-> fs,
             lookups |-> {MarshalJSON([entries |-> l, sorted |-> TRUE])},
             metadata |-> m, unreadable |-> {}] :
                fs \in SUBSET BlobNames,
                m \in MetadataFor([entries |-> l, sorted |-> TRUE])} :
           l \in RepairLogs}

\* archives without lookups.djfl, or with a document that does not parse
BrokenZips ==
    LET l == [entries |-> <<OldEntry(<<"a", "x">>, <<1>>, 0, 1)>>, sorted |-> TRUE]
        whole == [files |-> {TargetOf(<<1>>), TargetOf(<<2, 2>>)},
                  lookups |-> {MarshalJSON(l)},
                  metadata |-> {GenerateMetadata(l)}, unreadable |-> {}]
    IN  { [whole EXCEPT !.lookups = {}],
          [whole EXCEPT !.lookups = {}, !.metadata = {}],
          [whole EXCEPT !.unreadable = {LookupsName}],
          [whole EXCEPT !.unreadable = {MetadataName}] }

\* decodeZipFile on lookups.djfl: {} when the document does not parse
decodeLookups(zip) ==
    IF LookupsName \in zip.unreadable THEN {}
    ELSE {UnmarshalJSON(j) : j \in zip.lookups}

\* []ValidationError, by the number of errors of each kind
NoErrors ==
    [ArchiveCorrupted |-> 0, MissingLookup |-> 0, MissingMetadata |-> 0,
     MissingTarget |-> 0, OrphanedFile |-> 0, MetadataMismatch |-> 0]

\* len(validationErrors)
NumErrors(validationErrors) ==
    validationErrors.ArchiveCorrupted + validationErrors.MissingLookup +
    validationErrors.MissingMetadata + validationErrors.MissingTarget +
    validationErrors.OrphanedFile + validationErrors.MetadataMismatch

\* validateArchive on the file at archivePath
validateArchive(file) ==
    IF file = {} THEN [NoErrors EXCEPT !.ArchiveCorrupted = 1]
    ELSE
    LET zip == CHOOSE z \in file : TRUE
        hasLookup == zip.lookups # {}
        hasMetadata == zip.metadata # {}
        lookupParseError == hasLookup /\ LookupsName \in zip.unreadable
        metadataParseError == hasMetadata /\ MetadataName \in zip.unreadable
        lookupTable == IF hasLookup /\ ~lookupParseError
                       THEN CHOOSE t \in decodeLookups(zip) : TRUE
                       ELSE EmptyTable
        entries == lookupTable.entries
        pointing == {i \in DOMAIN entries : entries[i].target # Tombstone}
        referencedFiles == {entries[i].target : i \in pointing}
        missing == {i \in pointing : entries[i].target \notin zip.files}
        orphaned == zip.files \ referencedFiles
        mismatches ==
            {k \in {"TotalFileCount", "TargetFileCount"} :
                \E metadata \in zip.metadata :
                    GenerateMetadata(lookupTable)[k] # metadata[k]}
    IN  [ArchiveCorrupted |-> (IF lookupParseError THEN 1 ELSE 0) +
                              (IF metadataParseError THEN 1 ELSE 0),
         MissingLookup |-> IF hasLookup THEN 0 ELSE 1,
         MissingMetadata |-> IF hasMetadata THEN 0 ELSE 1,
         MissingTarget |-> IF hasLookup /\ ~lookupParseError
                           THEN Cardinality(missing) ELSE 0,
         OrphanedFile |-> IF hasLookup /\ ~lookupParseError
                          THEN Cardinality(orphaned) ELSE 0,
         MetadataMismatch |-> IF hasLookup /\ hasMetadata /\
                                 ~lookupParseError /\ ~metadataParseError
                              THEN Cardinality(mismatches) ELSE 0]

\* RepairStats
NoStats ==
    [MetadataRegenerated |-> FALSE, OrphanedFilesRemoved |-> 0,
     MissingEntriesFixed |-> 0]

\* previewRepair: the stats counted from the validation errors alone
previewRepair(validationErrors) ==
    [MetadataRegenerated |-> validationErrors.MissingMetadata > 0 \/
                             validationErrors.MetadataMismatch > 0,
     OrphanedFilesRemoved |-> validationErrors.OrphanedFile,
     MissingEntriesFixed |-> validationErrors.MissingTarget]

\* repairArchive, the analysis of the validation errors
hasUnrecoverableErrors(validationErrors) ==
    validationErrors.ArchiveCorrupted > 0 \/ validationErrors.MissingLookup > 0

needsMetadataRegeneration(validationErrors) ==
    validationErrors.MissingMetadata > 0 \/ validationErrors.MetadataMismatch > 0

needsLookupCleanup(validationErrors) ==
    validationErrors.OrphanedFile > 0 \/ validationErrors.MissingTarget > 0

\* the loop of cleanLookupTable from entry i on: <<cleaned, removed>>
RECURSIVE cleanFrom(_, _, _, _, _)
cleanFrom(entries, filesInArchive, i, cleaned, removed) ==
    IF i > Len(entries) THEN <<cleaned, removed>>
    ELSE LET entry == entries[i]
         IN  IF entry.target = Tombstone \/ entry.target \in filesInArchive
             THEN cleanFrom(entries, filesInArchive, i + 1,
                            Add(cleaned, entry), removed)
             ELSE cleanFrom(entries, filesInArchive, i + 1, cleaned, removed + 1)

\* cleanLookupTable: var cleaned util.LookupTable, then cleaned.Add per entry
cleanLookupTable(lt, filesInArchive) ==
    cleanFrom(lt.entries, filesInArchive, 1, EmptyTable, 0)

\* an open without O_EXCL: never refused
OpenTrunc(exists) == FALSE

\* os.OpenFile(lockPath, O_CREATE|O_EXCL|O_WRONLY): whether it is refused
OpenExcl(exists) == exists

\* the lock file is left where it is
KeepLock(exists) == exists

\* the deferred lockFile.Close() and os.Remove(lockPath): whether the lock
\* file exists afterwards
RemoveLock(exists) == FALSE

\* the temporary archive and the stats that repairArchive builds from the zip
Repaired(zip, validationErrors) ==
    LET decoded == decodeLookups(zip)
        lookupTable == IF decoded = {} THEN EmptyTable
                       ELSE CHOOSE t \in decoded : TRUE
        entries == lookupTable.entries
        validTargets == {entries[i].target : i \in DOMAIN entries} \ {Tombstone}
        skipped == IF needsLookupCleanup(validationErrors)
                   THEN zip.files \ validTargets ELSE {}
        filesInArchive == zip.files \ skipped
        cleaned == IF needsLookupCleanup(validationErrors)
                   THEN cleanLookupTable(lookupTable, filesInArchive)
                   ELSE <<lookupTable, 0>>
    IN  [zip |-> [files |-> filesInArchive,
                  lookups |-> {MarshalJSON(cleaned[1])},
                  metadata |-> {GenerateMetadata(cleaned[1])},
                  unreadable |-> {}],
         stats |-> [MetadataRegenerated |->
                        needsMetadataRegeneration(validationErrors),
                    OrphanedFilesRemoved |-> Cardinality(skipped),
                    MissingEntriesFixed |-> cleaned[2]]]

\* no rename back: the archive path stays empty
NoRestore(backup) == {}

\* os.Rename(backupPath, archivePath) after the second rename failed
RestoreBackup(backup) == backup

\* a validate run that has not started
NoRepair ==
    [pc |-> "idle", mode |-> "repair", seen |-> {}, validationErrors |-> NoErrors,
     stats |-> NoStats, err |-> "nil", repairSucceeded |-> FALSE]

InitRepair ==
    /\ IdleResolve
    /\ IdlePack
    /\ IdleFile
    /\ IdleInode
    /\ IdleRepack
    /\ IdleWalk
    /\ IdleView
    /\ IdleTable
    /\ IdlePlan
    /\ IdleList
    /\ Mounted(1)
    /\ StorageRoot(<<>>, FALSE)
    /\ \E zip \in ReadableZips \cup BrokenZips : archiveFile = {zip}
    /\ backupFile = {}
    /\ lockFile = FALSE
    /\ tmpFiles = [p \in 1..NumRepairs |-> {}]
    /\ freeBytes \in 0..MaxFree
    /\ repairs = [p \in 1..NumRepairs |-> NoRepair]

restVars == <<hcVars, resolveVars, packVars, fileVars, inodeVars, repackVars, walkVars, viewVars, tableVars, metaVars, planVars, listVars>>

\* the steps of repairArchive that hold the lock file
Locked == {"temp", "build", "backup", "replace"}

\* the walk callback up to the choice of repair: validateArchive(path)
Validate(p, mode) ==
    /\ repairs[p].pc = "idle"
    /\ LET validationErrors == validateArchive(archiveFile)
       IN  repairs' = [repairs EXCEPT ![p] =
                [@ EXCEPT !.mode = mode, !.seen = archiveFile,
                          !.validationErrors = validationErrors,
                          !.pc = IF NumErrors(validationErrors) = 0 THEN "valid"
                                 ELSE IF mode = "dryRun" THEN "preview"
                                 ELSE "analyse"]]
    /\ UNCHANGED <<archiveFile, backupFile, lockFile, tmpFiles, freeBytes>>
    /\ UNCHANGED restVars

\* opts.DryRun: previewRepair
Preview(p) ==
    /\ repairs[p].pc = "preview"
    /\ repairs' = [repairs EXCEPT ![p] =
            [@ EXCEPT !.stats = previewRepair(repairs[p].validationErrors),
                      !.pc = "returned"]]
    /\ UNCHANGED <<archiveFile, backupFile, lockFile, tmpFiles, freeBytes>>
    /\ UNCHANGED restVars

\* repairArchive up to the disk space check: nothing to do, or go on
Analyse(p) ==
    /\ repairs[p].pc = "analyse"
    /\ LET validationErrors == repairs[p].validationErrors
           nothing == \/ hasUnrecoverableErrors(validationErrors)
                      \/ /\ ~needsMetadataRegeneration(validationErrors)
                         /\ ~needsLookupCleanup(validationErrors)
       IN  repairs' = [repairs EXCEPT ![p] =
                [@ EXCEPT !.pc = IF nothing THEN "returned" ELSE "stat"]]
    /\ UNCHANGED <<archiveFile, backupFile, lockFile, tmpFiles, freeBytes>>
    /\ UNCHANGED restVars

\* os.Stat and getAvailableDiskSpace; a failing Statfs is only a warning
SpaceCheck(p) ==
    /\ repairs[p].pc = "stat"
    /\ \E statfsFails \in BOOLEAN :
         repairs' = [repairs EXCEPT ![p] =
            IF archiveFile = {}
            THEN [@ EXCEPT !.pc = "returned", !.err = "stat"]
            ELSE LET requiredSpace == 2 * Size(CHOOSE z \in archiveFile : TRUE)
                 IN  IF ~statfsFails /\ freeBytes < requiredSpace
                     THEN [@ EXCEPT !.pc = "returned",
                                    !.err = "ErrInsufficientDiskSpace"]
                     ELSE [@ EXCEPT !.pc = "lock"]]
    /\ UNCHANGED <<archiveFile, backupFile, lockFile, tmpFiles, freeBytes>>
    /\ UNCHANGED restVars

\* the lock file by exclusive create; "locked" when it exists
AcquireLock(p) ==
    /\ repairs[p].pc = "lock"
    /\ \E ok \in BOOLEAN :
         IF OpenExcl(lockFile)
         THEN /\ repairs' = [repairs EXCEPT ![p] =
                    [@ EXCEPT !.pc = "returned", !.err = "locked"]]
              /\ UNCHANGED lockFile
         ELSE IF ~ok
         THEN /\ repairs' = [repairs EXCEPT ![p] =
                    [@ EXCEPT !.pc = "returned", !.err = "lock"]]
              /\ UNCHANGED lockFile
         ELSE /\ repairs' = [repairs EXCEPT ![p] = [@ EXCEPT !.pc = "temp"]]
              /\ lockFile' = TRUE
    /\ UNCHANGED <<archiveFile, backupFile, tmpFiles, freeBytes>>
    /\ UNCHANGED restVars

\* os.CreateTemp; on failure the deferred function removes the lock file
CreateTemp(p) ==
    /\ repairs[p].pc = "temp"
    /\ \E ok \in BOOLEAN :
         IF ok
         THEN /\ tmpFiles' = [tmpFiles EXCEPT ![p] = {EmptyZip}]
              /\ repairs' = [repairs EXCEPT ![p] = [@ EXCEPT !.pc = "build"]]
              /\ UNCHANGED lockFile
         ELSE /\ repairs' = [repairs EXCEPT ![p] =
                    [@ EXCEPT !.pc = "returned", !.err = "temp"]]
              /\ lockFile' = RemoveLock(lockFile)
              /\ UNCHANGED tmpFiles
    /\ UNCHANGED <<archiveFile, backupFile, freeBytes>>
    /\ UNCHANGED restVars

\* zip.OpenReader to tmpFile.Close: the repaired archive is written to the
\* temporary file; a failure removes the temporary file and the lock file
Build(p) ==
    /\ repairs[p].pc = "build"
    /\ \E failure \in {"none", "open", "write"} :
         LET opens == archiveFile # {} /\ failure # "open" /\
                      \A z \in archiveFile :
                          z.lookups # {} => decodeLookups(z) # {}
         IN  IF ~opens
             THEN /\ repairs' = [repairs EXCEPT ![p] =
                        [@ EXCEPT !.pc = "returned", !.err = "open"]]
                  /\ tmpFiles' = [tmpFiles EXCEPT ![p] = {}]
                  /\ lockFile' = RemoveLock(lockFile)
             ELSE LET built == Repaired(CHOOSE z \in archiveFile : TRUE,
                                        repairs[p].validationErrors)
                  IN  IF failure = "write"
                      THEN /\ repairs' = [repairs EXCEPT ![p] =
                                [@ EXCEPT !.pc = "returned", !.err = "write",
                                          !.stats = [built.stats EXCEPT
                                              !.MetadataRegenerated = FALSE]]]
                           /\ tmpFiles' = [tmpFiles EXCEPT ![p] = {}]
                           /\ lockFile' = RemoveLock(lockFile)
                      ELSE /\ repairs' = [repairs EXCEPT ![p] =
                                [@ EXCEPT !.pc = "backup", !.stats = built.stats]]
                           /\ tmpFiles' = [tmpFiles EXCEPT ![p] = {built.zip}]
                           /\ UNCHANGED lockFile
    /\ UNCHANGED <<archiveFile, backupFile, freeBytes>>
    /\ UNCHANGED restVars

\* os.Rename(archivePath, backupPath)
Backup(p) ==
    /\ repairs[p].pc = "backup"
    /\ \E ok \in BOOLEAN :
         IF ok /\ archiveFile # {}
         THEN /\ backupFile' = archiveFile
              /\ archiveFile' = {}
              /\ repairs' = [repairs EXCEPT ![p] = [@ EXCEPT !.pc = "replace"]]
              /\ UNCHANGED <<tmpFiles, lockFile>>
         ELSE /\ repairs' = [repairs EXCEPT ![p] =
                    [@ EXCEPT !.pc = "returned", !.err = "backup"]]
              /\ tmpFiles' = [tmpFiles EXCEPT ![p] = {}]
              /\ lockFile' = RemoveLock(lockFile)
              /\ UNCHANGED <<archiveFile, backupFile>>
    /\ UNCHANGED freeBytes
    /\ UNCHANGED restVars

\* os.Rename(tmpPath, archivePath); on failure the backup is renamed back
Replace(p) ==
    /\ repairs[p].pc = "replace"
    /\ \E ok \in BOOLEAN :
         IF ok
         THEN /\ archiveFile' = tmpFiles[p]
              /\ repairs' = [repairs EXCEPT ![p] =
                    [@ EXCEPT !.pc = "returned", !.repairSucceeded = TRUE]]
              /\ UNCHANGED backupFile
         ELSE /\ archiveFile' = RestoreBackup(backupFile)
              /\ backupFile' = {}
              /\ repairs' = [repairs EXCEPT ![p] =
                    [@ EXCEPT !.pc = "returned", !.err = "replace"]]
    /\ tmpFiles' = [tmpFiles EXCEPT ![p] = {}]
    /\ lockFile' = RemoveLock(lockFile)
    /\ UNCHANGED freeBytes
    /\ UNCHANGED restVars

NextRepair ==
    \/ \E p \in 1..NumRepairs, mode \in {"repair", "dryRun"} : Validate(p, mode)
    \/ \E p \in 1..NumRepairs : Preview(p)
    \/ \E p \in 1..NumRepairs : Analyse(p)
    \/ \E p \in 1..NumRepairs : SpaceCheck(p)
    \/ \E p \in 1..NumRepairs : AcquireLock(p)
    \/ \E p \in 1..NumRepairs : CreateTemp(p)
    \/ \E p \in 1..NumRepairs : Build(p)
    \/ \E p \in 1..NumRepairs : Backup(p)
    \/ \E p \in 1..NumRepairs : Replace(p)

SpecRepair == InitRepair /\ [][NextRepair]_vars

\* repair p went through repairArchive as far as the lock step
ReachedLock(p) ==
    /\ repairs[p].pc = "returned"
    /\ repairs[p].mode = "repair"
    /\ ~hasUnrecoverableErrors(repairs[p].validationErrors)
    /\ \/ needsMetadataRegeneration(repairs[p].validationErrors)
       \/ needsLookupCleanup(repairs[p].validationErrors)
    /\ repairs[p].err \in {"nil", "locked"}

\* C15 as stated: of two repairs that validated the same archive contents
\* (so that their runs overlap) and both reached the lock step, exactly one
\* succeeds and the other fails Locked.
C15_ExactlyOneSucceeds ==
    \A p, q \in DOMAIN repairs :
        (p # q /\ ReachedLock(p) /\ ReachedLock(q) /\
         repairs[p].seen = repairs[q].seen)
        => \/ repairs[p].repairSucceeded /\ repairs[q].err = "locked"
           \/ repairs[q].repairSucceeded /\ repairs[p].err = "locked"

\* C15, amended: two repairs never hold the lock file at the same time, and a
\* repair that met the lock file fails Locked without rewriting anything.
C15_LockExclusive ==
    /\ \A p, q \in DOMAIN repairs :
           (p # q /\ repairs[p].pc \in Locked) => repairs[q].pc \notin Locked
    /\ \A p \in DOMAIN repairs :
           repairs[p].err = "locked" =>
               ~repairs[p].repairSucceeded /\ tmpFiles[p] = {}

C15_Witness ==
    \E p, q \in DOMAIN repairs :
        /\ repairs[p].pc \in Locked
        /\ repairs[q].pc = "returned"
        /\ repairs[q].err = "locked"

\* repair p is the only validate run that has been started
Alone(p) == \A q \in DOMAIN repairs : q # p => repairs[q].pc = "idle"

\* C16: with fewer free bytes than twice the size of the archive a repair
\* creates no lock file, no temporary file, no backup and no rewritten archive.
C16_SpaceSafety ==
    \A p \in DOMAIN repairs :
        (Alone(p) /\ repairs[p].pc # "idle" /\
         \E zip \in repairs[p].seen : freeBytes < 2 * Size(zip))
        => /\ lockFile = FALSE
           /\ tmpFiles[p] = {}
           /\ backupFile = {}
           /\ archiveFile = repairs[p].seen

C18_RepairedValidates ==
    \A p \in DOMAIN repairs :
        (Alone(p) /\ repairs[p].pc = "returned" /\ repairs[p].repairSucceeded)
        => NumErrors(validateArchive(archiveFile)) = 0

\* C19: the stats that a repair reports are the stats that the preview
\* computes for the same archive, and a preview leaves the files alone.
C19_PreviewAgrees ==
    \A p \in DOMAIN repairs :
        (Alone(p) /\ repairs[p].pc = "returned")
        => /\ (repairs[p].mode = "repair" /\ repairs[p].err = "nil")
                => repairs[p].stats = previewRepair(validateArchive(repairs[p].seen))
           /\ repairs[p].mode = "dryRun"
                => /\ archiveFile = repairs[p].seen
                   /\ backupFile = {}
                   /\ lockFile = FALSE
                   /\ tmpFiles[p] = {}

\* the lookup table inside the file at the archive's path
TableOf(file) ==
    IF \E zip \in file : decodeLookups(zip) # {}
    THEN CHOOSE t \in UNION {decodeLookups(zip) : zip \in file} : TRUE
    ELSE EmptyTable

\* the most recent entry of the name is a tombstone
Deleted(table, name) ==
    LET latestEntry == latestFrom(table.entries, name, NoTime, 1, {})
    IN  latestEntry # {} /\ \A l \in latestEntry : l.target = Tombstone

\* C20: a name whose most recent entry was a tombstone before a repair still
\* has a tombstone as its most recent entry after the repair.
C20_TombstonesKept ==
    \A p \in DOMAIN repairs :
        (Alone(p) /\ repairs[p].pc = "returned" /\ repairs[p].repairSucceeded)
        => \A name \in Paths :
               Deleted(TableOf(repairs[p].seen), name)
               => Deleted(TableOf(archiveFile), name)

\* C21: a file at its final name in the work area holds the complete bytes
\* that its name is derived from.
C21_WorkFileComplete ==
    \A hashPath \in DOMAIN work :
        HashPathFromHash(GetHash(work[hashPath])) = hashPath

(***************************************************************************)
(* util.PackWorkDir under gcWorker (src/util/repack.go:106-232) on one     *)
(* work directory and its archive, both as maps from file name to bytes.   *)
(***************************************************************************)
MaxPacks == 2

\* the file names of a work directory
BucketNames == {"f1", "f2"}

\* the bytes of a file: whole, or what an interrupted copy left
BucketBytes == Bytes \cup UNION {Prefixes(d) : d \in Bytes}

\* the directories and the archives over these names
Buckets == UNION {[names -> BucketBytes] : names \in SUBSET BucketNames}

\* an extraction that writes every member over the file of that name
extractOverwriting(zip, dir) ==
    [n \in DOMAIN zip \cup DOMAIN dir |->
        IF n \in DOMAIN zip THEN zip[n] ELSE dir[n]]

\* extractZipToDir without a failure: the members whose name the directory
\* does not have are written, the files already there are skipped
extractZipToDir(zip, dir) ==
    [n \in DOMAIN zip \cup DOMAIN dir |->
        IF n \in DOMAIN dir THEN dir[n] ELSE zip[n]]

\* CompressDirectoryToDest without a failure: every file of the directory
CompressDirectoryToDest(dir) == dir

\* a map cut down to the names in keep
Restrict(f, keep) == [n \in keep |-> f[n]]

InitRepack ==
    /\ IdleResolve
    /\ IdlePack
    /\ IdleFile
    /\ IdleInode
    /\ IdleRepair
    /\ IdleWalk
    /\ IdleView
    /\ IdleTable
    /\ IdlePlan
    /\ IdleList
    /\ Mounted(1)
    /\ StorageRoot(<<>>, FALSE)
    /\ workBucket \in Buckets
    /\ zipFile \in {{}} \cup {{zip} : zip \in Buckets}
    /\ packRun = [pc |-> "idle", zipBefore |-> {}, bucketBefore |-> <<>>,
                  packs |-> 0]

repackRest == <<hcVars, resolveVars, packVars, fileVars, inodeVars, repairVars, walkVars, viewVars, tableVars, metaVars, planVars, listVars>>

\* PackWorkDir up to CompressDirectoryToDest: the old archive, when there is
\* one, is extracted into the work directory; the extraction can fail after
\* some members, leaving the member it was copying cut short
PackExtract ==
    /\ packRun.pc = "idle"
    /\ packRun.packs < MaxPacks
    /\ IF zipFile = {}
       THEN /\ workBucket' = workBucket
            /\ packRun' = [packRun EXCEPT !.pc = "compress", !.zipBefore = zipFile,
                                          !.bucketBefore = workBucket]
       ELSE \E zip \in zipFile, ok \in BOOLEAN :
              LET todo == DOMAIN zip \ DOMAIN workBucket
              IN  IF ok
                  THEN /\ workBucket' = extractZipToDir(zip, workBucket)
                       /\ packRun' = [packRun EXCEPT !.pc = "compress",
                                          !.zipBefore = zipFile,
                                          !.bucketBefore = workBucket]
                  ELSE \E done \in SUBSET todo, cut \in SUBSET todo :
                         /\ cut \cap done = {}
                         /\ Cardinality(cut) <= 1
                         /\ \E part \in [cut -> BucketBytes] :
                              /\ \A n \in cut : part[n] \in Prefixes(zip[n])
                              /\ workBucket' =
                                    part @@
                                    extractZipToDir(Restrict(zip, done), workBucket)
                         /\ packRun' = [packRun EXCEPT !.pc = "failed",
                                          !.zipBefore = zipFile,
                                          !.bucketBefore = workBucket]
    /\ UNCHANGED zipFile
    /\ UNCHANGED repackRest

\* CompressDirectoryToDest: the old archive is removed and a new one written
\* from the files of the work directory; a failure leaves what was written
PackCompress ==
    /\ packRun.pc = "compress"
    /\ \E ok \in BOOLEAN :
         IF ok
         THEN /\ zipFile' = {CompressDirectoryToDest(workBucket)}
              /\ packRun' = [packRun EXCEPT !.pc = "packed"]
         ELSE /\ \E written \in SUBSET DOMAIN workBucket :
                    /\ written # DOMAIN workBucket
                    /\ zipFile' \in {{}, {Restrict(workBucket, written)}}
              /\ packRun' = [packRun EXCEPT !.pc = "failed"]
    /\ UNCHANGED workBucket
    /\ UNCHANGED repackRest

\* gcWorker after PackWorkDir: on success os.RemoveAll(workDir); on an error
\* the work directory stays; then the result is sent and the next job taken
WorkerResult ==
    /\ packRun.pc \in {"packed", "failed"}
    /\ workBucket' = IF packRun.pc = "packed" THEN <<>> ELSE workBucket
    /\ packRun' = [packRun EXCEPT !.pc = "idle", !.packs = @ + 1]
    /\ UNCHANGED zipFile
    /\ UNCHANGED repackRest

\* CopyToWorkDir between two GC cycles: a file that the work directory does
\* not have is created and copied, whole or cut short
CopyIn ==
    /\ packRun.pc = "idle"
    /\ \E n \in BucketNames \ DOMAIN workBucket, data \in BucketBytes :
         workBucket' = (n :> data) @@ workBucket
    /\ UNCHANGED <<zipFile, packRun>>
    /\ UNCHANGED repackRest

NextRepack ==
    \/ PackExtract
    \/ PackCompress
    \/ WorkerResult
    \/ CopyIn

SpecRepack == InitRepack /\ [][NextRepack]_vars

\* C22: when PackWorkDir has packed a work directory whose archive existed,
\* the new archive has every name of the old archive and of the work
\* directory, with the work directory's bytes for the names it had and the
\* old archive's bytes for the others.
C22_RepackMerges ==
    (packRun.pc = "packed" /\ packRun.zipBefore # {})
    => \E zip \in zipFile, old \in packRun.zipBefore :
          LET dir == packRun.bucketBefore
          IN  /\ DOMAIN zip = DOMAIN old \cup DOMAIN dir
              /\ \A n \in DOMAIN dir : zip[n] = dir[n]
              /\ \A n \in DOMAIN old \ DOMAIN dir : zip[n] = old[n]

C22_Witness ==
    /\ packRun.pc = "packed"
    /\ \E zip \in zipFile, old \in packRun.zipBefore :
          /\ \E n \in DOMAIN old \cap DOMAIN packRun.bucketBefore :
                old[n] # packRun.bucketBefore[n] /\ zip[n] = packRun.bucketBefore[n]
          /\ \E n \in DOMAIN old \ DOMAIN packRun.bucketBefore : zip[n] = old[n]

(***************************************************************************)
(* The "dead end" walk of FS.findFileEntry (src/unnamed/part_001:790-839)  *)
(* and util.ManifestLocationForPath (src/util/hasher.go:241-284) over a    *)
(* directory tree; a path is the sequence of its elements from "/".        *)
(***************************************************************************)
\* fs.StoragePath
StoragePath == <<"srv", "store">>

\* filepath.Dir: the parent, "/" being its own parent
Dir(path) == IF path = <<>> THEN <<>> ELSE SubSeq(path, 1, Len(path) - 1)

\* strings.TrimPrefix
TrimPrefix(s, prefix) ==
    IF Len(prefix) <= Len(s) /\ SubSeq(s, 1, Len(prefix)) = prefix
    THEN SubSeq(s, Len(prefix) + 1, Len(s))
    ELSE s

\* the directories above the storage root, and the storage root
Ancestors == {<<>>, <<"srv">>, StoragePath}

\* the directories that may exist below the storage root
Subdirs == {StoragePath \o <<"a">>, StoragePath \o <<"b">>}

\* the logs a lookups.djfl may hold: names relative to its directory
WalkLogs ==
    { <<OldEntry(<<"a", "x">>, <<1>>, 0, 1)>>,
      <<OldEntry(<<"x">>, <<2, 2>>, 0, 1)>> }

\* the manifest found in directory dir, searched for the path
searchManifest(dir, path) ==
    LET relativePath == TrimPrefix(path, TrimPrefix(dir, StoragePath))
    IN  [found |-> TRUE, manifest |-> dir,
         entry |-> searchLookupTable(UnmarshalJSON(manifests[dir]), relativePath)]

NoManifest == [found |-> FALSE, manifest |-> <<>>, entry |-> {}]

\* the loop of findFileEntry with currentPath, for the virtual path
RECURSIVE walkFrom(_, _)
walkFrom(currentPath, path) ==
    LET parentPath == Dir(currentPath)
    IN  IF currentPath \notin dirsOnDisk
        THEN IF parentPath = currentPath THEN NoManifest
             ELSE IF parentPath \in DOMAIN manifests
                  THEN searchManifest(parentPath, path)
                  ELSE walkFrom(parentPath, path)
        ELSE IF currentPath \in DOMAIN manifests
             THEN searchManifest(currentPath, path)
             ELSE IF parentPath = currentPath THEN NoManifest
                  ELSE walkFrom(parentPath, path)

\* FS.findFileEntry over the tree
findFileEntryInTree(path) == walkFrom(StoragePath \o path, path)

\* the loop of ManifestLocationForPath: {} when no manifest is found
RECURSIVE locateFrom(_)
locateFrom(currentPath) ==
    LET parentPath == Dir(currentPath)
    IN  IF currentPath \notin dirsOnDisk
        THEN IF parentPath = currentPath THEN {}
             ELSE IF parentPath \in DOMAIN manifests THEN {parentPath}
                  ELSE locateFrom(parentPath)
        ELSE IF currentPath \in DOMAIN manifests THEN {currentPath}
             ELSE IF parentPath = currentPath THEN {}
                  ELSE locateFrom(parentPath)

ManifestLocationForPath(path) == locateFrom(path)

InitWalk ==
    /\ IdleResolve
    /\ IdlePack
    /\ IdleFile
    /\ IdleInode
    /\ IdleRepair
    /\ IdleRepack
    /\ IdleView
    /\ IdleTable
    /\ IdlePlan
    /\ IdleList
    /\ Mounted(1)
    /\ StorageRoot(<<>>, FALSE)
    /\ \E below \in SUBSET Subdirs :
         /\ dirsOnDisk = Ancestors \cup below
         /\ \E holding \in SUBSET (Ancestors \cup below) :
              manifests \in [holding -> {MarshalJSON([entries |-> l, sorted |-> TRUE]) :
                                            l \in WalkLogs}]

walkRest == <<hcVars, packVars, fileVars, inodeVars, repairVars, repackVars, viewVars, tableVars, metaVars, planVars, listVars>>

\* Dir.resolveLivePath: findFileEntry of the virtual path
WalkLive(path) ==
    /\ query' = <<"live", path>>
    /\ result' = findFileEntryInTree(path).entry
    /\ UNCHANGED walkVars
    /\ UNCHANGED walkRest

\* ManifestLocationForPath of a path below the storage root
Locate(path) ==
    /\ query' = <<"manifest", path>>
    /\ result' = ManifestLocationForPath(StoragePath \o path)
    /\ UNCHANGED walkVars
    /\ UNCHANGED walkRest

NextWalk ==
    \/ \E path \in Paths : WalkLive(path)
    \/ \E path \in Paths : Locate(path)

SpecWalk == InitWalk /\ [][NextWalk]_vars

\* the directories from the storage root down to the parent of the path
Between(path) ==
    {StoragePath \o SubSeq(path, 1, n) : n \in 0..(Len(path) - 1)}

\* C23: when no directory between the path and the storage root (inclusive)
\* holds a lookups.djfl, resolving the path finds nothing, and no manifest
\* that the walk consults lies above the storage root.
C23_WalkStopsAtRoot ==
    (Len(query) = 2 /\ query[1] = "live")
    => LET path == query[2]
           r == findFileEntryInTree(path)
       IN  /\ (Between(path) \cap DOMAIN manifests = {}) => result = {}
           /\ r.found => r.manifest \in Between(path)

\* C24: a File node looked up below /snapshots is never written: no Write
\* and no Setattr changes its content or marks it as modified.
C24_SnapshotReadOnly ==
    fview = "snapshots" => (fdata = <<>> /\ ~isNew)

\* C25: at any moment a path resolves under /snapshots/latest to what it
\* resolves to under /live: the same entry, or not found in both.
C25_LatestIsLive ==
    /\ (Len(query) = 3 /\ query[3] = "latest")
          => result = findFileEntry(query[1])
    /\ (Len(query) = 2 /\ query[2] = NoTime)
          => result = findFileEntryAtTime(query[1], NoTime)

\* the entries of the log that are active in a view: the newest of their
\* name among those the view admits, and not a tombstone
Active(entries, t) ==
    {i \in 1..Len(entries) :
        /\ i \in Newest(entries, entries[i].name, t)
        /\ entries[i].target # Tombstone}

\* C26: under /live and under /snapshots/<stamp>, the lookup of a directory
\* path returns a directory exactly when at least one entry that is active
\* in that view has a name of which the directory path is a prefix.
C26_DirectoryExists ==
    (Len(query) = 3 /\ query[3] \in {"live", "snapshots"} /\ result = {}) =>
        \A entries \in LogEntries :
            node = "dir" <=>
                \E i \in Active(entries, query[2]) :
                    HasPrefix(entries[i].name, PathString(FALSE, query[1]))

(***************************************************************************)
(* LookupTable as its callers see it (src/util/hasher.go:425-505): a       *)
(* caller holds a table value and calls its methods.                       *)
(***************************************************************************)
\* LookupTable.Less on two entries
Less(a, b) == a.modified < b.modified

\* the orders in which n entries can be rearranged
Rearrangements(n) ==
    {f \in [1..n -> 1..n] : \A i, j \in 1..n : i # j => f[i] # f[j]}

\* sort.Sort(e) leaves the entries in an order in which no entry is Less
\* than an earlier one; it is not a stable sort, so entries that are not
\* Less than each other end in any order
SortedOrders(entries) ==
    {s \in {[i \in 1..Len(entries) |-> entries[f[i]]] :
                f \in Rearrangements(Len(entries))} :
        \A i, j \in 1..Len(s) : i < j => ~Less(s[j], s[i])}

\* LookupTable.Sort has a value receiver: sort.Sort swaps the entries of the
\* slice the caller shares, and the flag is set on the receiver's copy.
\* The tables the caller can hold afterwards.
Sort(e) ==
    LET receiver == {[entries |-> s, sorted |-> TRUE] : s \in SortedOrders(e.entries)}
    IN  {[entries |-> r.entries, sorted |-> e.sorted] : r \in receiver}

\* the entries callers add
NewEntries ==
    {OldEntry(<<"a", "x">>, <<1>>, t, MaxLogLen + 1) : t \in Times}

\* the tables a caller starts with: decoded from a log of the versions of
\* one name, the flag set only on a log in ascending order
StartTables ==
    LET versions == {<<"a", "x">>} \X Times \X ({<<>>} \cup Bytes)
        logs == UNION {{LogOf(vs) : vs \in [1..n -> versions]} : n \in 0..MaxLogLen}
    IN  {t \in {[entries |-> l, sorted |-> isSorted] : l \in logs, isSorted \in BOOLEAN} :
            t.sorted => t.entries \in SortedOrders(t.entries)}

InitTable ==
    /\ IdleResolve
    /\ IdlePack
    /\ IdleFile /\ IdleInode /\ IdleRepair /\ IdleRepack /\ IdleWalk /\ IdleView
    /\ IdlePlan
    /\ IdleList
    /\ Mounted(MaxTime)
    /\ StorageRoot(<<>>, FALSE)
    /\ held \in StartTables
    /\ heldBefore = held
    /\ call = <<>>
    /\ document = {}
    /\ marshalled = {}

tableRest == <<hcVars, resolveVars, packVars, fileVars, inodeVars, repairVars, repackVars, walkVars, viewVars, metaVars, planVars, listVars>>

\* lookupTable.Add(entry) by a caller (HotCache.updateLookupTable,
\* cleanLookupTable)
CallAdd(le) ==
    /\ Len(held.entries) < MaxLogLen + 1
    /\ held' = Add(held, le)
    /\ heldBefore' = held
    /\ call' = <<"Add", le>>
    /\ UNCHANGED <<document, marshalled>>
    /\ UNCHANGED tableRest

\* lookupTable.Sort() by a caller
CallSort ==
    /\ held' \in Sort(held)
    /\ heldBefore' = held
    /\ call' = <<"Sort">>
    /\ UNCHANGED <<document, marshalled>>
    /\ UNCHANGED tableRest

\* json.Marshal(lookupTable) by a caller
CallMarshal ==
    /\ document' = {MarshalJSON(held)}
    /\ marshalled' = {held}
    /\ heldBefore' = held
    /\ call' = <<"Marshal">>
    /\ UNCHANGED held
    /\ UNCHANGED tableRest

\* json Decode of the document into the caller's table
CallDecode ==
    /\ document # {}
    /\ held' \in {UnmarshalJSON(j) : j \in document}
    /\ heldBefore' = held
    /\ call' = <<"Decode">>
    /\ UNCHANGED <<document, marshalled>>
    /\ UNCHANGED tableRest

\* the entries of a table, each marked as the last of its name or not
MarkLast(entries) ==
    [i \in 1..Len(entries) |->
        [entry |-> entries[i],
         last |-> \A j \in (i + 1)..Len(entries) :
                      entries[j].name # entries[i].name]]

\* LookupTable.Collapse, which assumes a sorted table: of the entries of each
\* name the last one is retained, a tombstone included, in the order they had
Collapse(e) ==
    LET retained == SelectSeq(MarkLast(e.entries), LAMBDA x : x.last)
    IN  [entries |-> [i \in 1..Len(retained) |-> retained[i].entry],
         sorted |-> e.sorted]

\* lookupTable.Collapse() by a caller, on a table in ascending order
CallCollapse ==
    /\ held.entries \in SortedOrders(held.entries)
    /\ held' = Collapse(held)
    /\ heldBefore' = held
    /\ call' = <<"Collapse">>
    /\ UNCHANGED <<document, marshalled>>
    /\ UNCHANGED tableRest

NextTable ==
    \/ \E le \in NewEntries : CallAdd(le)
    \/ CallSort
    \/ CallCollapse
    \/ CallMarshal
    \/ CallDecode

SpecTable == InitTable /\ [][NextTable]_vars

\* C27: for a fixed snapshot time, resolving a name gives the same entry
\* before and after the log is sorted, also when several entries of the name
\* have equal modified times.
C27_SortKeepsResolution ==
    call = <<"Sort">> =>
        \A name \in Paths, snapshotTime \in Times \cup {NoTime} :
            searchLookupTableAtTime(held, name, snapshotTime)
                = searchLookupTableAtTime(heldBefore, name, snapshotTime)

\* C28: Add(entry) on the table a caller holds appends exactly that entry
\* at the end, leaves the earlier entries unchanged and clears the sorted
\* flag: the table the caller holds afterwards contains the new entry.
C28_AddAppends ==
    (call # <<>> /\ call[1] = "Add") =>
        held = AddAppending(heldBefore, call[2])

\* C29: after Sort() the table the caller holds has its entries in ascending
\* order of modified and its sorted flag set.
C29_SortMutates ==
    call = <<"Sort">> =>
        /\ \A i, j \in 1..Len(held.entries) :
              i < j => held.entries[i].modified <= held.entries[j].modified
        /\ held.sorted

C31_CollapseKeepsLive ==
    call = <<"Collapse">> =>
        \A name \in Paths :
            searchLookupTable(held, name) = searchLookupTable(heldBefore, name)

\* C32: whenever the storage root holds a lookup log, it holds the metadata
\* generated from that log: total_file_count and target_file_count are the
\* counts of the log, also after a GC cycle has written the log.
C32_MetadataMatchesLog ==
    logFile # {} =>
        metadataFile = {GenerateMetadata(UnmarshalJSON(j)) : j \in logFile}

(***************************************************************************)
(* The conversion planner (src/util/subfile.go).                           *)
(***************************************************************************)
MaxTarget == 3

\* the names of directory entries, in the order os.ReadDir returns them
EntryNames == <<"a", "b", "c", "f1", "f2">>

\* the directories and the regular files an input tree may have, as paths
\* below the input root
PlanDirs == {<<>>, <<"a">>, <<"b">>, <<"a", "c">>}
PlanFiles == {d \o <<n>> : d \in PlanDirs, n \in {"f1", "f2"}}

\* the input trees: the root, directories with their parents, files in them
Trees ==
    {t \in [dirs : SUBSET PlanDirs, files : SUBSET PlanFiles] :
        /\ <<>> \in t.dirs
        /\ \A d \in t.dirs : Dir(d) \in t.dirs
        /\ \A f \in t.files : Dir(f) \in t.dirs}

\* os.ReadDir(path): the names of the entries of the directory, sorted
ReadDir(t, path) ==
    SelectSeq(EntryNames, LAMBDA n : path \o <<n>> \in t.dirs \cup t.files)

\* f.IsDir() of the entry at a path
IsDir(t, path) == path \in t.dirs

\* the regular files below a directory, at any depth
FilesUnder(t, path) ==
    {f \in t.files : Len(f) > Len(path) /\ SubSeq(f, 1, Len(path)) = path}

\* a count that is over target from the target on
CountAtLeast(t, path, target) ==
    [count |-> Cardinality(FilesUnder(t, path)),
     isOverTarget |-> Cardinality(FilesUnder(t, path)) >= target]

RECURSIVE CountSubfile(_, _, _)
RECURSIVE countFrom(_, _, _, _, _, _)
\* the loop of CountSubfile over the entries from index i on
countFrom(t, path, target, files, i, count) ==
    IF i > Len(files) THEN [count |-> count, isOverTarget |-> count > target]
    ELSE IF ~IsDir(t, path \o <<files[i]>>)
         THEN IF count + 1 > target
              THEN [count |-> count + 1, isOverTarget |-> TRUE]
              ELSE countFrom(t, path, target, files, i + 1, count + 1)
         ELSE LET sub == CountSubfile(t, path \o <<files[i]>>, target)
              IN  IF sub.isOverTarget
                  THEN [count |-> count + sub.count, isOverTarget |-> TRUE]
                  ELSE countFrom(t, path, target, files, i + 1, count + sub.count)

\* CountSubfile on a directory of the tree: (count, isOverTarget)
CountSubfile(t, path, target) ==
    countFrom(t, path, target, ReadDir(t, path), 1, 0)

ZipBoundary(path, includeSubdirs) ==
    [Path |-> path, IncludeSubdirs |-> includeSubdirs]

\* a planner that does not go into the subdirectories
skipSubdirs(t, path, target, files, i, bounds) == bounds

RECURSIVE DetermineZipBoundaries(_, _, _)
RECURSIVE subdirBoundaries(_, _, _, _, _, _)
\* the loop of DetermineZipBoundaries over the subdirectories from index i on
subdirBoundaries(t, path, target, files, i, bounds) ==
    IF i > Len(files) THEN bounds
    ELSE IF IsDir(t, path \o <<files[i]>>)
         THEN subdirBoundaries(t, path, target, files, i + 1,
                  bounds \o DetermineZipBoundaries(t, path \o <<files[i]>>, target))
         ELSE subdirBoundaries(t, path, target, files, i + 1, bounds)

\* DetermineZipBoundaries on a directory of the tree
DetermineZipBoundaries(t, path, target) ==
    LET over == CountSubfile(t, path, target).isOverTarget
        files == ReadDir(t, path)
        hasFiles == \E i \in 1..Len(files) : ~IsDir(t, path \o <<files[i]>>)
        hasSubdirs == \E i \in 1..Len(files) : IsDir(t, path \o <<files[i]>>)
    IN  IF ~over THEN <<ZipBoundary(path, TRUE)>>
        ELSE (IF hasSubdirs
              THEN subdirBoundaries(t, path, target, files, 1, <<>>)
              ELSE <<>>)
             \o (IF hasFiles THEN <<ZipBoundary(path, FALSE)>> ELSE <<>>)

InitPlan ==
    /\ IdleResolve
    /\ IdlePack
    /\ IdleFile /\ IdleInode /\ IdleRepair /\ IdleRepack /\ IdleWalk /\ IdleView
    /\ IdleTable
    /\ IdleList
    /\ Mounted(MaxTime)
    /\ StorageRoot(<<>>, FALSE)
    /\ tree \in Trees
    /\ planTarget \in 0..MaxTarget
    /\ planned = {}
    /\ boundaries = <<>>
    /\ isOver = FALSE

planRest == <<hcVars, resolveVars, packVars, fileVars, inodeVars, repairVars, repackVars, walkVars, viewVars, tableVars, metaVars, listVars>>

\* runLegacyConvert plans the conversion of a directory of the tree
Plan(d) ==
    /\ planned' = {d}
    /\ boundaries' = DetermineZipBoundaries(tree, d, planTarget)
    /\ isOver' = CountSubfile(tree, d, planTarget).isOverTarget
    /\ UNCHANGED <<tree, planTarget>>
    /\ UNCHANGED planRest

NextPlan ==
    \E d \in tree.dirs : Plan(d)

SpecPlan == InitPlan /\ [][NextPlan]_vars

\* a boundary covers a file: below the directory at any depth when the
\* subdirectories are included, directly in it otherwise
Covers(b, f) ==
    IF b.IncludeSubdirs
    THEN Len(f) > Len(b.Path) /\ SubSeq(f, 1, Len(b.Path)) = b.Path
    ELSE Dir(f) = b.Path

\* C33: the boundaries planned for a directory cover every regular file
\* below it exactly once, and no file outside it.
C33_PlannerPartition ==
    \A d \in planned :
        /\ \A f \in FilesUnder(tree, d) :
              Cardinality({i \in 1..Len(boundaries) : Covers(boundaries[i], f)}) = 1
        /\ \A f \in tree.files \ FilesUnder(tree, d) :
              \A i \in 1..Len(boundaries) : ~Covers(boundaries[i], f)

\* a plan over threshold with files at two depths, in boundaries of both kinds
C33_Witness ==
    /\ planned = {<<>>}
    /\ \E i, j \in 1..Len(boundaries) :
          /\ boundaries[i].IncludeSubdirs
          /\ ~boundaries[j].IncludeSubdirs
          /\ boundaries[j].Path = <<>>
    /\ \E f \in tree.files : Len(f) = 3

\* C34: a directory with at most planTarget regular files below it gets
\* exactly the one boundary (D, include_subdirs = true); it counts as over
\* threshold exactly when it has more.
C34_UnderThreshold ==
    \A d \in planned :
        /\ isOver <=> Cardinality(FilesUnder(tree, d)) > planTarget
        /\ Cardinality(FilesUnder(tree, d)) <= planTarget
              => boundaries = <<ZipBoundary(d, TRUE)>>

\* a directory with subdirectories and exactly planTarget files, planned
C34_Witness ==
    /\ planned = {<<>>}
    /\ planTarget > 0
    /\ Cardinality(FilesUnder(tree, <<>>)) = planTarget
    /\ \E f \in tree.files : Len(f) > 1
    /\ boundaries = <<ZipBoundary(<<>>, TRUE)>>

\* C35: every processing task that has finished successfully has its entry
\* in the lookup log on disk, whatever other tasks did to lookups.djfl in
\* between.
C35_NoLostAppend ==
    \A i \in DOMAIN tasks :
        tasks[i].pc = "done" =>
            \A e \in tasks[i].entry :
                \E j \in logFile : \E k \in 1..Len(j.jentries) : j.jentries[k] = e

\* the entries that a lookup through the virtual tree searches: those of the
\* table FS.loadLookupTable returns
Observed == UNION {{t.entries[k] : k \in 1..Len(t.entries)} : t \in loadLookupTable}

\* C36: once a task of a GC cycle has appended its entry and finished, every
\* lookup through the virtual tree searches a table that holds the entry:
\* the cached table is never older than the log on disk.
C36_CacheFresh ==
    \A i \in DOMAIN tasks :
        tasks[i].pc = "done" => tasks[i].entry \subseteq Observed

\* C37: hc.mu, which processFiles locks for a GC cycle, is released only
\* when every task the cycle started has finished: while the lock is free
\* no task is running, so none runs beside a WriteFile or a later cycle.
C37_LockCoversTasks ==
    gcPc # "walk" => \A i \in DOMAIN tasks : tasks[i].pc \notin Running

\* the bytes a blob name stands for: the name is the hash of these bytes
Content(n) == IF n = "f1" THEN <<1>> ELSE <<2, 2>>

\* the blob is in the work directory or in the archive, with all its bytes
Present(bucket, zips, n) ==
    \/ n \in DOMAIN bucket /\ bucket[n] = Content(n)
    \/ \E zip \in zips : n \in DOMAIN zip /\ zip[n] = Content(n)

\* C38: a blob that is in the work directory or in the archive of its bucket
\* is there after every step of a copy or of a pack, failed packs included.
C38_BlobKept ==
    [][\A n \in BucketNames :
          Present(workBucket, zipFile, n) => Present(workBucket', zipFile', n)]_vars

\* C39: the lock file exists exactly while the repair that created it is
\* between its exclusive create and its return; every return path of that
\* repair removes it, and a repair that was refused the lock leaves it in place.
C39_LockLifetime ==
    /\ lockFile <=> \E p \in DOMAIN repairs : repairs[p].pc \in Locked
    /\ \A p \in DOMAIN repairs :
           (repairs[p].pc = "returned" /\ repairs[p].err \in {"locked", "lock"})
           => tmpFiles[p] = {} /\ ~repairs[p].repairSucceeded

C39_Witness ==
    \E p, q \in DOMAIN repairs :
        /\ repairs[p].pc = "returned"
        /\ repairs[p].err \in {"temp", "open", "write", "backup", "replace"}
        /\ repairs[q].pc = "replace"
        /\ lockFile

(***************************************************************************)
(* Dir.ReadDirAll of a /live or snapshot directory                         *)
(* (src/unnamed/part_001:321-486).                                         *)
(***************************************************************************)
\* the orders in which a range over a Go map of the keys S can run
Orders(S) ==
    {s \in [1..Cardinality(S) -> S] : \A i, j \in 1..Cardinality(S) : i # j => s[i] # s[j]}

\* FS.getAllEntries with the one lookup log at the storage root: every entry
\* of the table, tombstones and older versions included
getAllEntries ==
    IF loadLookupTable = {} THEN <<>>
    ELSE (CHOOSE t \in loadLookupTable : TRUE).entries

\* FS.getEntriesWithPrefix: the entries with a target whose name starts with
\* the prefix
getEntriesWithPrefix(prefix) ==
    SelectSeq(getAllEntries,
              LAMBDA entry : entry.target # Tombstone /\ HasPrefix(entry.name, prefix))

\* FS.getEntriesWithPrefixAtTime: of every name the entry that latestEntries
\* keeps, when it has a target and its name starts with the prefix; the
\* range over the map yields them in any order
getEntriesWithPrefixAtTime(prefix, snapshotTime) ==
    Orders({entry \in UNION {latestFrom(getAllEntries, getAllEntries[i].name,
                                        snapshotTime, 1, {}) :
                                 i \in 1..Len(getAllEntries)} :
               entry.target # Tombstone /\ HasPrefix(entry.name, prefix)})

\* the loop of Dir.ReadDirAll over the entries, for a prefix of n path
\* elements: a file Dirent for every entry directly in the directory, then a
\* directory Dirent for every key of the map dirs
Dirents(entries, n) ==
    LET inDir == SelectSeq(entries, LAMBDA entry : entry.target # Tombstone)
        files == SelectSeq(inDir, LAMBDA entry : Len(entry.name) = n + 1)
        dirs == {inDir[i].name[n + 1] :
                    i \in {k \in 1..Len(inDir) : Len(inDir[k].name) > n + 1}}
    IN  {[i \in 1..Len(files) |-> [Name |-> files[i].name[n + 1], Type |-> "file"]]
            \o [i \in 1..Len(order) |-> [Name |-> order[i], Type |-> "dir"]] :
         order \in Orders(dirs)}

\* Dir.ReadDirAll of the Dir at /live/<parent>, a node that an earlier Lookup
\* returned
ReadDirLive(parent) ==
    /\ parent # <<>> => hasFilesWithPrefix(PathString(FALSE, parent))
    /\ dirents' \in Dirents(IF parent = <<>> THEN getAllEntries
                            ELSE getEntriesWithPrefix(PathString(FALSE, parent)),
                            Len(parent))
    /\ query' = <<parent, NoTime, "live", "readdir">>
    /\ result' = {}
    /\ node' = "none"
    /\ cache' = loadLookupTable
    /\ fview' = fview
    /\ UNCHANGED packVars
    /\ UNCHANGED <<fileVars, inodeVars, repairVars, repackVars, walkVars, tableVars, metaVars, planVars>>
    /\ UNCHANGED <<now, incoming, staging, work, logFile, archives, tasks,
                   gcPc, walk, cycle, tickPending, tickerStopped, stopPc,
                   exited, highestInode, nWrites, lastWrite, picked>>

\* Dir.ReadDirAll of the Dir at /snapshots/<stamp> (NoTime for latest)
ReadDirAt(snapshotTime) ==
    /\ \E entries \in getEntriesWithPrefixAtTime(PathString(FALSE, <<>>), snapshotTime) :
          dirents' \in Dirents(entries, 0)
    /\ query' = <<<<>>, snapshotTime, "snapshots", "readdir">>
    /\ result' = {}
    /\ node' = "none"
    /\ cache' = loadLookupTable
    /\ fview' = fview
    /\ UNCHANGED packVars
    /\ UNCHANGED <<fileVars, inodeVars, repairVars, repackVars, walkVars, tableVars, metaVars, planVars>>
    /\ UNCHANGED <<now, incoming, staging, work, logFile, archives, tasks,
                   gcPc, walk, cycle, tickPending, tickerStopped, stopPc,
                   exited, highestInode, nWrites, lastWrite, picked>>

NextList ==
    \/ \E parent \in Parents : ReadDirLive(parent)
    \/ \E snapshotTime \in Times \cup {NoTime} : ReadDirAt(snapshotTime)

SpecList == InitResolve /\ [][NextList]_vars

\* the names of a directory: those a listing can hold and those a Lookup asks
DirNames == Names \cup {"b"}

\* the number of Dirents of the name in the listing
Listed(name) == Cardinality({i \in 1..Len(dirents) : dirents[i].Name = name})

\* C40: after ReadDirAll of a /live or snapshot directory, a name is listed
\* exactly when the Lookup of that name in that directory returns a node, and
\* no name is listed twice.
C40_ListingAgrees ==
    (Len(query) = 4 /\ query[4] = "readdir") =>
        \A name \in DirNames :
            /\ Listed(name) <= 1
            /\ Listed(name) > 0 <=>
                  IF query[3] = "live"
                  THEN resolveLivePath(query[1], name) # "enoent"
                  ELSE resolveSnapshotPath(name, query[2]) # "enoent"

====
